---- MODULE Spec2Model ----
(***************************************************************************)
(* State-machine model of ServiceClient (src/src/client.ts): the session   *)
(* kept in _STORAGE, the authenticated fetch with its refresh-and-retry,   *)
(* and the passwordless verification polling loop.                         *)
(*                                                                         *)
(* A call of the client is a task.  A task runs synchronously up to its    *)
(* next await on the network, on the refresh-token handler or on the       *)
(* polling sleep; one action of the model is one such synchronous run.     *)
(* The clock is read by the code through Date; it advances (Tick) while    *)
(* tasks are suspended on the network or asleep, and between calls.        *)
(***************************************************************************)
EXTENDS Integers, Sequences, FiniteSets, TLC

VARIABLES
  _STORAGE,   \* ServiceClient._STORAGE, the session (client.ts:76-91)
  nowMs,      \* the wall clock in milliseconds, as Date.now() reads it
  local       \* per task: the position and the locals of the running call

vars == <<_STORAGE, nowMs, local>>

----------------------------------------------------------------------------
\* Values

\* JavaScript's undefined for string-valued fields; "" is the other falsy string.
Undefined == "undefined"

Truthy(s) == s # Undefined /\ s # ""

\* An optional structured value: absent, or present.
None == <<>>

Some(x) == <<x>>

MsPerSec == 1000

\* The clock moves in steps of half a second, MaxTicks times at most.
MaxTicks == 4

TickMs == MsPerSec \div 2

StartMs == MsPerSec

EndMs == StartMs + MaxTicks * TickMs

Tasks == {"a", "b"}

\* Header objects are maps from header name to value.
EmptyObject == [n \in {} |-> ""]

\* Object.assign({}, a, b): the right-hand layer wins on a shared key.
ObjectAssign(a, b) ==
  [n \in (DOMAIN a) \cup (DOMAIN b) |-> IF n \in DOMAIN b THEN b[n] ELSE a[n]]

\* {...x}: spreading an absent object adds nothing.
Spread(o) == IF o = None THEN EmptyObject ELSE o[1]

CommonHeaderChoices ==
  { ("User-Agent" :> "SuperfaceCLI/1.0") @@ ("Accept" :> "application/json")
      @@ ("Authorization" :> "Basic common") }

CallerHeaderChoices ==
  { EmptyObject,
    ("Content-Type" :> "application/json")
      @@ ("Accept" :> "application/problem+json")
      @@ ("Authorization" :> "Basic caller") }

AccessTokens == {"AT1", "AT2"}

ExpiresIn == {0, 1}

\* AuthToken (src/src/interfaces: access_token, expires_in, refresh_token?)
AuthTokens ==
  [access_token : AccessTokens, expires_in : ExpiresIn,
   refresh_token : {Undefined, "RT1"}]

\* The tokens the token endpoint issues: it grants a positive lifetime.
IssuedTokens == {tok \in AuthTokens : tok.expires_in > 0}

\* ClientOptions (src/src/interfaces/client_options.ts:6-11)
ClientOptionsSet ==
  [baseUrl : {Undefined, "", "http://baseurl"},
   refreshToken : {Undefined, "RT0"},
   commonHeaders : {None} \cup {Some(h) : h \in CommonHeaderChoices},
   refreshTokenUpdatedHandler : {Undefined, "handler"}]

\* RequestOptions handed to fetch: authenticate?: boolean, headers?
RequestOptionsSet ==
  [authenticate : {"absent", "true", "false"},
   headers : CallerHeaderChoices,
   credentials : {Undefined}]

DEFAULT_POLLING_TIMEOUT_SECONDS == 60

DEFAULT_POLLING_INTERVAL_SECONDS == 1

\* CancellationToken (passwordless_verify_options.ts:10-24): the flag, and
\* whether a completion callback was given to the constructor.
CancellationTokens ==
  [isCancellationRequested : BOOLEAN, onCancelledCallback : BOOLEAN]

\* VerifyOptions (passwordless_verify_options.ts:1-5)
VerifyOptionsSet ==
  [pollingTimeoutSeconds : {None, Some(0), Some(1)},
   pollingIntervalSeconds : {None, Some(1)},
   cancellationToken : {None} \cup {Some(c) : c \in CancellationTokens}]

\* What the verify endpoint answers: 200 with a token, 400 with a body whose
\* status is one of the enum's values or missing, or another status code.
VerifyResponses ==
  {[status |-> 200, bodyStatus |-> Undefined, token |-> Some(tok)] :
     tok \in AuthTokens}
  \cup {[status |-> 400, bodyStatus |-> v, token |-> None] :
          v \in {"PENDING", "USED", "EXPIRED", "CONFIRMED", Undefined}}
  \cup {[status |-> 500, bodyStatus |-> Undefined, token |-> None]}

\* Response statuses the servers answer with.
TokenStatuses == {200, 201, 401}

FetchStatuses == {200, 401, 403, 500}

----------------------------------------------------------------------------
\* The session: pure functions of _STORAGE

getCurrentTime(now) == now \div MsPerSec

isAccessTokenExpired(st, now) ==
  IF st.authToken = None
    THEN TRUE
    ELSE IF /\ st.authTokenExpiresAt # None
            /\ st.authTokenExpiresAt[1] # 0
            /\ getCurrentTime(now) >= st.authTokenExpiresAt[1]
           THEN TRUE
           ELSE FALSE

\* setOptions with baseUrl written whenever the option is given, the empty
\* string too.
setOptions_anyBaseUrl(st, o) ==
  [st EXCEPT
     !.baseUrl = IF o.baseUrl # Undefined THEN o.baseUrl ELSE @,
     !.refreshToken = IF Truthy(o.refreshToken) THEN o.refreshToken ELSE @,
     !.commonHeaders = IF o.commonHeaders # None THEN o.commonHeaders ELSE @,
     !.refreshTokenUpdatedHandler = o.refreshTokenUpdatedHandler]

\* setOptions with the handler written only when the option is given.
setOptions_keepsHandler(st, o) ==
  [st EXCEPT
     !.baseUrl = IF Truthy(o.baseUrl) THEN o.baseUrl ELSE @,
     !.refreshToken = IF Truthy(o.refreshToken) THEN o.refreshToken ELSE @,
     !.commonHeaders = IF o.commonHeaders # None THEN o.commonHeaders ELSE @,
     !.refreshTokenUpdatedHandler =
        IF o.refreshTokenUpdatedHandler # Undefined
          THEN o.refreshTokenUpdatedHandler ELSE @]

\* setOptions with every option written, present or not.
setOptions_overwritesAll(st, o) ==
  [st EXCEPT
     !.baseUrl = IF Truthy(o.baseUrl) THEN o.baseUrl ELSE @,
     !.refreshToken = o.refreshToken,
     !.commonHeaders = IF o.commonHeaders # None THEN o.commonHeaders ELSE @,
     !.refreshTokenUpdatedHandler = o.refreshTokenUpdatedHandler]

setOptions(st, o) ==
  [st EXCEPT
     !.baseUrl = IF Truthy(o.baseUrl) THEN o.baseUrl ELSE @,
     !.refreshToken = IF Truthy(o.refreshToken) THEN o.refreshToken ELSE @,
     !.commonHeaders = IF o.commonHeaders # None THEN o.commonHeaders ELSE @,
     !.refreshTokenUpdatedHandler = o.refreshTokenUpdatedHandler]

\* loginStore with the token written and its expiry left for later.
loginStore_tokenOnly(st, authToken, now) ==
  [st EXCEPT !.authToken = Some(authToken)]

\* loginStore with the expiry of a token that is held kept for the new one.
loginStore_staleExpiry(st, authToken, now) ==
  [st EXCEPT
     !.authTokenExpiresAt =
        IF @ = None THEN Some(getCurrentTime(now) + authToken.expires_in)
        ELSE @,
     !.authToken = Some(authToken)]

\* loginStore with a token that is held kept in place of the new one.
loginStore_keepsHeld(st, authToken, now) ==
  [st EXCEPT
     !.authTokenExpiresAt = Some(getCurrentTime(now) + authToken.expires_in),
     !.authToken = IF @ = None THEN Some(authToken) ELSE @]

\* loginStore with the expiry taken as the token's lifetime alone.
loginStore_relativeExpiry(st, authToken, now) ==
  [st EXCEPT
     !.authTokenExpiresAt = Some(authToken.expires_in),
     !.authToken = Some(authToken)]

\* login, lines 129-136: what is written before the handler is considered.
loginStore(st, authToken, now) ==
  [st EXCEPT
     !.authTokenExpiresAt = Some(getCurrentTime(now) + authToken.expires_in),
     !.authToken = Some(authToken)]

\* login, lines 131-132: the refresh token known before this login.
knownRefreshToken(st) ==
  IF st.authToken # None /\ Truthy(st.authToken[1].refresh_token)
    THEN st.authToken[1].refresh_token
    ELSE st.refreshToken

\* loginNotifies without the comparison with the known refresh token.
loginNotifies_unchangedToo(st, authToken) ==
  /\ st.refreshTokenUpdatedHandler # Undefined
  /\ Truthy(st.baseUrl)
  /\ Truthy(authToken.refresh_token)

\* login, lines 138-143: whether the handler is invoked.
loginNotifies(st, authToken) ==
  /\ st.refreshTokenUpdatedHandler # Undefined
  /\ Truthy(st.baseUrl)
  /\ Truthy(authToken.refresh_token)
  /\ knownRefreshToken(st) # authToken.refresh_token

\* logoutStore with the refresh token of the options left in place.
logoutStore_keepsRefreshToken(st) ==
  [st EXCEPT !.authToken = None, !.authTokenExpiresAt = None]

logoutStore(st) ==
  [st EXCEPT
     !.authToken = None,
     !.authTokenExpiresAt = None,
     !.refreshToken = Undefined]

logoutNotifies(st) ==
  st.refreshTokenUpdatedHandler # Undefined /\ Truthy(st.baseUrl)

\* getRefreshTokenCookie with the refresh token of the options preferred to
\* the one of the held token.
getRefreshTokenCookie_optionsFirst(st, cookie) ==
  IF Truthy(cookie)
    THEN cookie
    ELSE "user_session=" \o
           (IF Truthy(st.refreshToken)
              THEN st.refreshToken
              ELSE IF st.authToken # None /\ Truthy(st.authToken[1].refresh_token)
                     THEN st.authToken[1].refresh_token ELSE "")

getRefreshTokenCookie(st, cookie) ==
  IF Truthy(cookie)
    THEN cookie
    ELSE "user_session=" \o
           (IF st.authToken # None /\ Truthy(st.authToken[1].refresh_token)
              THEN st.authToken[1].refresh_token
              ELSE IF Truthy(st.refreshToken) THEN st.refreshToken ELSE "")

----------------------------------------------------------------------------
\* A task: one call of the client in progress

NoOutcome ==
  [kind |-> "none", error |-> "", status |-> 0,
   verificationStatus |-> "", authToken |-> None, value |-> FALSE,
   result |-> None]

\* The locals of a call that has not begun.  log, refreshCalls, expiryChecks,
\* loginCalls and notified record what the call did: the requests handed to
\* crossfetch.fetch in order, the calls of refreshAccessToken, of
\* isAccessTokenExpired and of login, and the handler's invocations.
\* callerHeaders and expiredAtStart keep what the call was entered with;
\* cancelRequestedAfter is the number of answered polls at the moment the
\* cancellation was requested (-1: not requested).  polled is the status
\* field of the body of each answered verification request, in order;
\* pollingTimeoutSeconds is that option as the call was given it, and before
\* is the session a call of login, logout or refreshAccessToken found;
\* cookie is the cookie option the last refreshAccessToken was called with,
\* logoutCalls counts the calls of logout, and sent is the body of the
\* answer to a passwordlessLogin or confirmPasswordlessLogin, locale the
\* host's locale when the answer was handled; given is the ClientOptions a
\* setOptions was called with; inflight is the set of the other tasks whose
\* call was suspended when a logout() was called; reused keeps, for a fetch
\* that was handed the options object of an earlier fetch, what that earlier
\* fetch was entered with and the headers of its first request.
Blank ==
  [pc |-> "idle", op |-> "none", ret |-> "none",
   useAuthentication |-> FALSE,
   opts |-> [authenticate |-> "absent", headers |-> EmptyObject,
             credentials |-> Undefined],
   expiredAtStart |-> FALSE, callerHeaders |-> EmptyObject,
   cancelRequestedAfter |-> -1,
   log |-> <<>>, expiryChecks |-> 0, refreshCalls |-> 0,
   loginCalls |-> <<>>, notified |-> <<>>,
   startPollingTimeStamp |-> 0, timeoutMilliseconds |-> 0,
   pollingIntervalMilliseconds |-> 0, wakeAt |-> 0,
   cancellationToken |-> None, cancellationFinishedCalls |-> 0,
   callbackCalls |-> 0, sleeps |-> 0, polled |-> <<>>,
   pollingTimeoutSeconds |-> None, before |-> None, cookie |-> Undefined,
   logoutCalls |-> 0, sent |-> None, locale |-> "", given |-> None,
   inflight |-> {}, reused |-> None,
   outcome |-> NoOutcome]

\* crossfetch.fetch(url, init) is called: the request is on the wire.
issue(l, kind, headers) ==
  [l EXCEPT !.log = Append(@, [kind |-> kind, headers |-> headers,
                               res |-> 0, body |-> None])]

\* The pending request is answered with a status (and a token body, if any).
answer(l, status, body) ==
  [l EXCEPT !.log[Len(l.log)] = [@ EXCEPT !.res = status, !.body = body]]

NetworkError == -1

returns(l, out) == [l EXCEPT !.pc = "done", !.outcome = out]

throws(l, err) ==
  [l EXCEPT !.pc = "done",
            !.outcome = [NoOutcome EXCEPT !.kind = "throw", !.error = err]]

returnsVoid(l) == returns(l, [NoOutcome EXCEPT !.kind = "return"])

returnsResponse(l, status) ==
  returns(l, [NoOutcome EXCEPT !.kind = "return", !.status = status])

returnsToken(l, result) ==
  returns(l, [NoOutcome EXCEPT !.kind = "return", !.authToken = result])

returnsResult(l, r) ==
  returns(l, [NoOutcome EXCEPT !.kind = "return", !.result = Some(r)])

returnsBoolean(l, b) ==
  returns(l, [NoOutcome EXCEPT !.kind = "return", !.value = b])

----------------------------------------------------------------------------
\* fetch and refreshAccessToken

\* The Authorization value _fetch writes (line 232).
bearer(st) ==
  "Bearer " \o (IF st.authToken = None THEN Undefined
                ELSE st.authToken[1].access_token)

\* fetchHeaders with the layers in another order: the headers of opts are
\* laid over the bearer header.
fetchHeaders_optsLast(st, l) ==
  ObjectAssign(
    ObjectAssign(Spread(st.commonHeaders),
                 IF l.useAuthentication THEN "Authorization" :> bearer(st)
                 ELSE EmptyObject),
    l.opts.headers)

\* fetchHeaders with the common headers laid over the caller's.
fetchHeaders_commonLast(st, l) ==
  ObjectAssign(
    ObjectAssign(l.opts.headers, Spread(st.commonHeaders)),
    IF l.useAuthentication THEN "Authorization" :> bearer(st) ELSE EmptyObject)

\* The headers _fetch builds (lines 227-234).
fetchHeaders(st, l) ==
  ObjectAssign(
    ObjectAssign(Spread(st.commonHeaders), l.opts.headers),
    IF l.useAuthentication THEN "Authorization" :> bearer(st) ELSE EmptyObject)

\* _fetch (lines 226-238): builds the headers into opts and issues the request.
_fetch(st, l, kind) ==
  [issue(l, kind, fetchHeaders(st, l)) EXCEPT
     !.opts.headers = fetchHeaders(st, l),
     !.opts.credentials = "include",
     !.pc = kind \o "_wait"]

\* refreshAccessToken up to its await of the token request (lines 182-202).
refreshAccessToken(st, l, cookie, ret) ==
  IF ~Truthy(st.baseUrl)
    THEN throws([l EXCEPT !.refreshCalls = @ + 1, !.cookie = cookie],
                "Client is not initialized, baseUrl not configured")
    ELSE [issue(l, "token",
                ObjectAssign(Spread(st.commonHeaders),
                             "cookie" :> getRefreshTokenCookie(st, cookie)))
            EXCEPT !.pc = "token_wait", !.ret = ret, !.refreshCalls = @ + 1,
                   !.cookie = cookie]

\* afterRefresh with the token of a direct call dropped.
afterRefresh_dropsToken(st, l, result) ==
  CASE l.ret = "fetch_pre" -> _fetch(st, l, "primary")
    [] l.ret = "fetch_post" -> _fetch(st, l, "retry")
    [] OTHER -> returnsToken(l, None)

\* What the caller of refreshAccessToken does once it has returned `result`
\* (fetch line 223 -> 240, fetch line 243 -> 244, or the caller of the client).
afterRefresh(st, l, result) ==
  CASE l.ret = "fetch_pre" -> _fetch(st, l, "primary")
    [] l.ret = "fetch_post" -> _fetch(st, l, "retry")
    [] OTHER -> returnsToken(l, result)

\* What follows a completed login or logout in the call that made it.
afterLogin(st, l) ==
  CASE l.ret \in {"fetch_pre", "fetch_post", "refresh_top"} ->
         afterRefresh(st, l, Some(l.loginCalls[Len(l.loginCalls)]))
    [] l.ret = "verify" ->
         returns(l, [NoOutcome EXCEPT
                       !.kind = "return",
                       !.verificationStatus = "CONFIRMED",
                       !.authToken = Some(l.loginCalls[Len(l.loginCalls)])])
    [] OTHER -> returnsVoid(l)

\* login with the token stored only once the handler has been told: nothing
\* is stored while the handler is awaited.
login_notifiesFirst(st, l, authToken, now) ==
  LET st2 == loginStore(st, authToken, now)
      l2 == [l EXCEPT !.loginCalls = Append(@, authToken)]
  IN IF loginNotifies(st, authToken)
       THEN [st |-> st,
             l |-> [l2 EXCEPT
                      !.pc = "handler_wait",
                      !.notified =
                         Append(@, <<st2.baseUrl, authToken.refresh_token>>)]]
       ELSE [st |-> st2, l |-> afterLogin(st2, l2)]

\* login (lines 128-149) as called inside a task: the session after it, and the
\* task either awaiting the handler or continuing.
login(st, l, authToken, now) ==
  LET st2 == loginStore(st, authToken, now)
      l2 == [l EXCEPT !.loginCalls = Append(@, authToken)]
  IN IF loginNotifies(st, authToken)
       THEN [st |-> st2,
             l |-> [l2 EXCEPT
                      !.pc = "handler_wait",
                      !.notified =
                         Append(@, <<st2.baseUrl, authToken.refresh_token>>)]]
       ELSE [st |-> st2, l |-> afterLogin(st2, l2)]

\* logout telling the handler only when the session held a token.
logout_quietWhenLoggedOut(st, l) ==
  LET st2 == logoutStore(st)
      l2 == [l EXCEPT !.logoutCalls = @ + 1]
  IN IF logoutNotifies(st2) /\ st.authToken # None
       THEN [st |-> st2,
             l |-> [l2 EXCEPT
                      !.pc = "handler_wait",
                      !.notified = Append(@, <<st2.baseUrl, "null">>)]]
       ELSE [st |-> st2, l |-> afterLogin(st2, l2)]

\* logout (lines 151-162).
logout(st, l) ==
  LET st2 == logoutStore(st)
      l2 == [l EXCEPT !.logoutCalls = @ + 1]
  IN IF logoutNotifies(st2)
       THEN [st |-> st2,
             l |-> [l2 EXCEPT
                      !.pc = "handler_wait",
                      !.notified = Append(@, <<st2.baseUrl, "null">>)]]
       ELSE [st |-> st2, l |-> afterLogin(st2, l2)]

\* fetchBegin with the refresh left to the 401 path: the primary request is
\* sent at once.
fetchBegin_noRefresh(st, o, now) ==
  LET useAuthentication == o.authenticate # "false"
  IN _fetch(st,
            [Blank EXCEPT
               !.op = "fetch",
               !.useAuthentication = useAuthentication,
               !.opts = [o EXCEPT !.authenticate = "absent"],
               !.callerHeaders = o.headers,
               !.expiredAtStart =
                  useAuthentication /\ isAccessTokenExpired(st, now),
               !.expiryChecks = IF useAuthentication THEN 1 ELSE 0],
            "primary")

\* fetch up to its first await (lines 218-240).
fetchBegin(st, o, now) ==
  LET useAuthentication == o.authenticate # "false"
      expired == isAccessTokenExpired(st, now)
      l1 == [Blank EXCEPT
               !.op = "fetch",
               !.useAuthentication = useAuthentication,
               !.opts = [o EXCEPT !.authenticate = "absent"],
               !.callerHeaders = o.headers,
               !.expiredAtStart = useAuthentication /\ expired,
               !.expiryChecks = IF useAuthentication THEN 1 ELSE 0]
  IN IF useAuthentication /\ expired
       THEN refreshAccessToken(st, l1, Undefined, "fetch_pre")
       ELSE _fetch(st, l1, "primary")

\* fetchPrimaryAnswered without the test of useAuthentication.
fetchPrimaryAnswered_anyCall(st, l, status) ==
  IF status \in {401, 403}
    THEN refreshAccessToken(st, answer(l, status, None), Undefined, "fetch_post")
    ELSE returnsResponse(answer(l, status, None), status)

\* fetch once the primary request is answered (lines 240-247).
fetchPrimaryAnswered(st, l, status) ==
  IF l.useAuthentication /\ status \in {401, 403}
    THEN refreshAccessToken(st, answer(l, status, None), Undefined, "fetch_post")
    ELSE returnsResponse(answer(l, status, None), status)

\* fetchRetryAnswered as a loop: a 401 or 403 on the retry refreshes and
\* retries again.
fetchRetryAnswered_again(st, l, status) ==
  IF l.useAuthentication /\ status \in {401, 403}
    THEN refreshAccessToken(st, answer(l, status, None), Undefined, "fetch_post")
    ELSE returnsResponse(answer(l, status, None), status)

\* fetch once the retried request is answered (lines 244-247).
fetchRetryAnswered(st, l, status) ==
  returnsResponse(answer(l, status, None), status)

\* transportFailed with the failure of the primary request answered by a
\* second attempt.
transportFailed_retry(st, l) ==
  IF l.op = "fetch" /\ l.log[Len(l.log)].kind = "primary"
    THEN _fetch(st, answer(l, NetworkError, None), "retry")
    ELSE throws(answer(l, NetworkError, None), "transport")

\* A request of the task rejects (a transport failure): no try/catch in
\* client.ts surrounds an await of crossfetch.fetch, so the call rejects.
transportFailed(st, l) == throws(answer(l, NetworkError, None), "transport")

----------------------------------------------------------------------------
\* verifyLogin and fetchVerifyLogin

returnsStatus(l, verificationStatus) ==
  returns(l, [NoOutcome EXCEPT !.kind = "return",
                               !.verificationStatus = verificationStatus])

\* verifyLoop with the elapsed time held against the polling interval.
verifyLoop_intervalAsTimeout(l, now) ==
  IF now - l.startPollingTimeStamp < l.pollingIntervalMilliseconds
    THEN [issue(l, "verify", EmptyObject) EXCEPT !.pc = "verify_wait"]
    ELSE returnsStatus(l, "POLLING_TIMEOUT")

\* verifyLoop with the timeout raised as an error.
verifyLoop_throwsOnTimeout(l, now) ==
  IF now - l.startPollingTimeStamp < l.timeoutMilliseconds
    THEN [issue(l, "verify", EmptyObject) EXCEPT !.pc = "verify_wait"]
    ELSE throws(l, "POLLING_TIMEOUT")

\* verifyLoop with the cancellation flag looked at on waking.
verifyLoop_samplesOnWake(l, now) ==
  IF l.cancellationToken # None /\ l.cancellationToken[1].isCancellationRequested
    THEN returnsStatus(l, "POLLING_CANCELLED")
    ELSE IF now - l.startPollingTimeStamp < l.timeoutMilliseconds
           THEN [issue(l, "verify", EmptyObject) EXCEPT !.pc = "verify_wait"]
           ELSE returnsStatus(l, "POLLING_TIMEOUT")

\* The head of the polling loop (lines 1044-1048) and the exit below it
\* (lines 1065-1067).
verifyLoop(l, now) ==
  IF now - l.startPollingTimeStamp < l.timeoutMilliseconds
    THEN [issue(l, "verify", EmptyObject) EXCEPT !.pc = "verify_wait"]
    ELSE returnsStatus(l, "POLLING_TIMEOUT")

\* verifyLogin up to its first await (lines 1037-1048).
verifyBegin(o, now) ==
  verifyLoop(
    [Blank EXCEPT
       !.op = "verifyLogin", !.ret = "verify",
       !.startPollingTimeStamp = now,
       !.pollingTimeoutSeconds = o.pollingTimeoutSeconds,
       !.timeoutMilliseconds =
          (IF o.pollingTimeoutSeconds = None
             THEN DEFAULT_POLLING_TIMEOUT_SECONDS
             ELSE o.pollingTimeoutSeconds[1]) * MsPerSec,
       !.pollingIntervalMilliseconds =
          (IF o.pollingIntervalSeconds = None
             THEN DEFAULT_POLLING_INTERVAL_SECONDS
             ELSE o.pollingIntervalSeconds[1]) * MsPerSec,
       !.cancellationToken = o.cancellationToken,
       !.cancelRequestedAfter =
          IF /\ o.cancellationToken # None
             /\ o.cancellationToken[1].isCancellationRequested
            THEN 0 ELSE -1],
    now)

\* CancellationToken.cancellationFinished (lines 19-23 of the options file).
cancellationFinished(l) ==
  [l EXCEPT
     !.cancellationFinishedCalls = @ + 1,
     !.callbackCalls =
        IF l.cancellationToken[1].onCancelledCallback THEN @ + 1 ELSE @]

\* verifyPolled with the cancellation looked at before the status.
verifyPolled_cancelFirst(l, verificationStatus, now) ==
  IF /\ l.cancellationToken # None
     /\ l.cancellationToken[1].isCancellationRequested
    THEN returnsStatus(cancellationFinished(l), "POLLING_CANCELLED")
    ELSE IF verificationStatus # "PENDING"
           THEN returnsStatus(l, verificationStatus)
           ELSE [l EXCEPT !.pc = "sleeping",
                          !.sleeps = @ + 1,
                          !.wakeAt = now + l.pollingIntervalMilliseconds]

\* verifyPolled with USED taken for a status that is polled again.
verifyPolled_usedPolls(l, verificationStatus, now) ==
  IF verificationStatus \notin {"PENDING", "USED"}
    THEN returnsStatus(l, verificationStatus)
    ELSE IF /\ l.cancellationToken # None
            /\ l.cancellationToken[1].isCancellationRequested
           THEN returnsStatus(cancellationFinished(l), "POLLING_CANCELLED")
           ELSE [l EXCEPT !.pc = "sleeping",
                          !.sleeps = @ + 1,
                          !.wakeAt = now + l.pollingIntervalMilliseconds]

\* verifyPolled with the cancellation reported without telling the token.
verifyPolled_silentCancel(l, verificationStatus, now) ==
  IF verificationStatus # "PENDING"
    THEN returnsStatus(l, verificationStatus)
    ELSE IF /\ l.cancellationToken # None
            /\ l.cancellationToken[1].isCancellationRequested
           THEN returnsStatus(l, "POLLING_CANCELLED")
           ELSE [l EXCEPT !.pc = "sleeping",
                          !.sleeps = @ + 1,
                          !.wakeAt = now + l.pollingIntervalMilliseconds]

\* verifyPolled returning whatever status the poll gave.
verifyPolled_anyStatus(l, verificationStatus, now) ==
  returnsStatus(l, verificationStatus)

\* The body of the loop once fetchVerifyLogin has returned a status without
\* a token (lines 1050-1062).
verifyPolled(l, verificationStatus, now) ==
  IF verificationStatus # "PENDING"
    THEN returnsStatus(l, verificationStatus)
    ELSE IF /\ l.cancellationToken # None
            /\ l.cancellationToken[1].isCancellationRequested
           THEN returnsStatus(cancellationFinished(l), "POLLING_CANCELLED")
           ELSE [l EXCEPT !.pc = "sleeping",
                          !.sleeps = @ + 1,
                          !.wakeAt = now + l.pollingIntervalMilliseconds]

\* fetchVerifyLogin with an answer it does not know taken for PENDING.
fetchVerifyLogin_lenient(st, l, resp, now) ==
  LET la == [answer(l, resp.status, resp.token) EXCEPT
               !.polled = Append(@, resp.bodyStatus)]
  IN IF resp.status = 200
       THEN login(st, la, resp.token[1], now)
       ELSE IF resp.status = 400 /\ resp.bodyStatus \in {"USED", "EXPIRED"}
              THEN [st |-> st, l |-> verifyPolled(la, resp.bodyStatus, now)]
              ELSE [st |-> st, l |-> verifyPolled(la, "PENDING", now)]

\* fetchVerifyLogin once the GET is answered (lines 962-986), and what
\* verifyLogin does with its result.
fetchVerifyLogin(st, l, resp, now) ==
  LET la == [answer(l, resp.status, resp.token) EXCEPT
               !.polled = Append(@, resp.bodyStatus)]
  IN IF resp.status = 200
       THEN login(st, la, resp.token[1], now)
       ELSE IF resp.status = 400
              THEN IF resp.bodyStatus \in {"PENDING", "USED", "EXPIRED"}
                     THEN [st |-> st,
                           l |-> verifyPolled(la, resp.bodyStatus, now)]
                     ELSE [st |-> st,
                           l |-> throws(la,
                                        "Token verification failed with error")]
              ELSE [st |-> st,
                    l |-> throws(la, "Unexpected status code received")]

----------------------------------------------------------------------------
\* signOut

SignOutStatuses == {200, 204, 401, 403, 404, 500}

\* Response.ok
ok(status) == status >= 200 /\ status <= 299

\* signOut up to its await of the DELETE request (lines 882-896).
signOut(st, l) ==
  [issue(l, "signout", "cookie" :> getRefreshTokenCookie(st, Undefined))
     EXCEPT !.pc = "signout_wait", !.ret = "signOut"]

\* signOutAnswered with only 401 taken for a missing session.
signOutAnswered_forbiddenUnknown(st, l, status) ==
  IF ok(status)
    THEN logout(st, answer(l, status, None))
    ELSE IF status = 401
           THEN [st |-> st,
                 l |-> throws(answer(l, status, None),
                              "No session found, couldn't log out")]
           ELSE [st |-> st,
                 l |-> throws(answer(l, status, None),
                              "Couldn't log out due to unknown reasons")]

\* signOutAnswered with the local session dropped before a missing session
\* is reported.
signOutAnswered_logsOutAnyway(st, l, status) ==
  IF ok(status)
    THEN logout(st, answer(l, status, None))
    ELSE IF status \in {401, 403}
           THEN [st |-> logoutStore(st),
                 l |-> throws(answer(l, status, None),
                              "No session found, couldn't log out")]
           ELSE [st |-> st,
                 l |-> throws(answer(l, status, None),
                              "Couldn't log out due to unknown reasons")]

\* signOut once the DELETE request is answered (lines 898-906).
signOutAnswered(st, l, status) ==
  IF ok(status)
    THEN logout(st, answer(l, status, None))
    ELSE IF status \in {401, 403}
           THEN [st |-> st,
                 l |-> throws(answer(l, status, None),
                              "No session found, couldn't log out")]
           ELSE [st |-> st,
                 l |-> throws(answer(l, status, None),
                              "Couldn't log out due to unknown reasons")]

----------------------------------------------------------------------------
\* passwordlessLogin

\* The date strings a body may carry: one that Date parses and one it does not.
IsoDates == {"2021-04-13T12:08:27.103Z"}

\* new Date(s): the instant the string denotes, or Invalid Date.
Date(s) ==
  IF s \in IsoDates
    THEN [valid |-> TRUE, instant |-> s]
    ELSE [valid |-> FALSE, instant |-> "Invalid Date"]

\* The body of an answer of the login endpoint: text that JSON.parse rejects,
\* or a JSON value with these fields present or not (a JSON null has none).
PasswordlessBodies ==
  [parses : BOOLEAN,
   verify_url : {Undefined, "https://x/v"},
   expires_at : {Undefined, "soon"} \cup IsoDates,
   title : {Undefined, "Email not found"},
   detail : {Undefined, "no such user"}]

PasswordlessStatuses == {200, 400, 500}

\* String(e) of the error response.json() rejects with.
JsonError == "FetchError: invalid json response body"

\* PasswordlessLoginResponse: SuccessfulLogin or UnsuccessfulLogin.
SuccessfulLogin(verifyUrl, expiresAt) ==
  [success |-> TRUE, verifyUrl |-> verifyUrl, expiresAt |-> Some(expiresAt),
   title |-> Undefined, detail |-> Undefined]

UnsuccessfulLogin(title, detail) ==
  [success |-> FALSE, verifyUrl |-> Undefined, expiresAt |-> None,
   title |-> title, detail |-> detail]

\* tryParseLoginResponseJson (lines 1084-1100): the error result, if any.
tryParseLoginResponseJson(body) ==
  IF body.parses
    THEN None
    ELSE Some(UnsuccessfulLogin(
                "Cannot deserialize login API response: " \o JsonError,
                Undefined))

\* passwordlessLogin up to its await of the POST request (lines 551-562).
passwordlessLogin(st, l) ==
  [issue(l, "passwordless", "Content-Type" :> "application/json")
     EXCEPT !.pc = "passwordless_wait"]

\* passwordlessLogin with the parse error of a 400 body thrown.
passwordlessAnswered_throwsOn400(l, status, body) ==
  LET la == answer(l, status, None)
      error == tryParseLoginResponseJson(body)
  IN IF status = 200
       THEN IF error # None
              THEN returnsResult(la, error[1])
              ELSE IF Truthy(body.verify_url) /\ Truthy(body.expires_at)
                     THEN returnsResult(
                            la, SuccessfulLogin(body.verify_url,
                                                Date(body.expires_at)))
                     ELSE returnsResult(
                            la, UnsuccessfulLogin("Unexpected API response",
                                                  Undefined))
       ELSE IF status = 400
              THEN IF error # None
                     THEN throws(la, error[1].title)
                     ELSE IF Truthy(body.title)
                            THEN returnsResult(
                                   la, UnsuccessfulLogin(body.title, body.detail))
                            ELSE returnsResult(
                                   la, UnsuccessfulLogin(
                                         "Unexpected API response", Undefined))
              ELSE returnsResult(
                     la, UnsuccessfulLogin(
                           "Unexpected status code " \o ToString(status)
                             \o " received", Undefined))

\* passwordlessLogin once the POST request is answered (lines 563-605).
passwordlessAnswered(l, status, body) ==
  LET la == answer(l, status, None)
      error == tryParseLoginResponseJson(body)
  IN IF status = 200
       THEN IF error # None
              THEN returnsResult(la, error[1])
              ELSE IF Truthy(body.verify_url) /\ Truthy(body.expires_at)
                     THEN returnsResult(
                            la, SuccessfulLogin(body.verify_url,
                                                Date(body.expires_at)))
                     ELSE returnsResult(
                            la, UnsuccessfulLogin("Unexpected API response",
                                                  Undefined))
       ELSE IF status = 400
              THEN IF error # None
                     THEN returnsResult(la, error[1])
                     ELSE IF Truthy(body.title)
                            THEN returnsResult(
                                   la, UnsuccessfulLogin(body.title, body.detail))
                            ELSE returnsResult(
                                   la, UnsuccessfulLogin(
                                         "Unexpected API response", Undefined))
              ELSE returnsResult(
                     la, UnsuccessfulLogin(
                           "Unexpected status code " \o ToString(status)
                             \o " received", Undefined))

----------------------------------------------------------------------------
\* confirmPasswordlessLogin

UpperCase == "ABCDEFGHIJKLMNOPQRSTUVWXYZ"

LowerCase == "abcdefghijklmnopqrstuvwxyz"

\* The position of the character c in the string s from position i on, or 0.
RECURSIVE indexOf(_, _, _)
indexOf(s, c, i) ==
  IF i > Len(s) THEN 0
  ELSE IF SubSeq(s, i, i) = c THEN i ELSE indexOf(s, c, i + 1)

\* The locales of the host: in the Turkish locale the lower case of I is
\* the dotless i (U+0131), written here as "|".
Locales == {"en-US", "tr-TR"}

DotlessI == "|"

\* String.prototype.toLocaleLowerCase() in the host's locale.
RECURSIVE toLocaleLowerCase(_, _)
toLocaleLowerCase(s, locale) ==
  IF s = "" THEN ""
  ELSE LET c == SubSeq(s, 1, 1)
           i == indexOf(UpperCase, c, 1)
       IN (IF i = 0 THEN c
           ELSE IF c = "I" /\ locale = "tr-TR" THEN DotlessI
           ELSE SubSeq(LowerCase, i, i))
            \o toLocaleLowerCase(SubSeq(s, 2, Len(s)), locale)

\* String.prototype.toLowerCase(): the locale plays no part.
toLowerCase(s) == toLocaleLowerCase(s, "en-US")

\* String.prototype.includes
includes(s, part) ==
  \E i \in 1..(Len(s) - Len(part) + 1) :
    SubSeq(s, i, i + Len(part) - 1) = part

\* makeErrorCodeFromLoginConfirmationError with USED tested before EXPIRED.
makeErrorCodeFromLoginConfirmationError_usedFirst(title, locale) ==
  IF title = Undefined THEN "INVALID"
  ELSE IF \/ includes(toLowerCase(title), "already confirm")
          \/ includes(toLowerCase(title), "used")
         THEN "USED"
  ELSE IF includes(toLocaleLowerCase(title, locale), "expir") THEN "EXPIRED"
  ELSE "INVALID"

\* makeErrorCodeFromLoginConfirmationError (lines 1070-1082); title?. gives
\* undefined, which is falsy, for a missing title.
makeErrorCodeFromLoginConfirmationError(title, locale) ==
  IF title # Undefined /\ includes(toLocaleLowerCase(title, locale), "expir")
    THEN "EXPIRED"
  ELSE IF /\ title # Undefined
          /\ \/ includes(toLowerCase(title), "already confirm")
             \/ includes(toLowerCase(title), "used")
         THEN "USED"
  ELSE "INVALID"

\* The body of an answer of the confirmation endpoint: text that JSON.parse
\* rejects, the JSON value null, or a JSON object {status?, title?}.
ConfirmTitles ==
  {Undefined, "Code is expired", "Code EXPIRED", "Token already confirmed",
   "Code was Used", "Used code has expired", "Invalid code"}

ConfirmBodies ==
  [json : {"text", "null", "object"},
   status : {Undefined, "CONFIRMED", "400"},
   title : ConfirmTitles]

ConfirmStatuses == {200, 400, 500}

\* LoginConfirmResponse: SuccessfulConfirm or UnsuccessfulConfirm.
SuccessfulConfirm == [success |-> TRUE, code |-> Undefined]

UnsuccessfulConfirm(code) == [success |-> FALSE, code |-> code]

\* confirmPasswordlessLogin up to the await inside this.fetch (lines 619-623).
confirmPasswordlessLogin(st, now) ==
  [fetchBegin(st,
              [authenticate |-> "false",
               headers |-> ("accept" :> "application/json"),
               credentials |-> Undefined],
              now)
     EXCEPT !.op = "confirmPasswordlessLogin"]

\* confirmPasswordlessLogin once this.fetch has its answer (lines 240-247 of
\* fetch, then lines 625-645): reading the properties of null throws a
\* TypeError outside the try block.
confirmAnswered(st, l, status, body, locale) ==
  LET lf == fetchPrimaryAnswered(st, l, status)
  IN IF lf.pc # "done" \/ lf.outcome.kind # "return"
       THEN lf
       ELSE IF body.json = "text"
              THEN throws(lf, "Cannot deserialize confirmation API response: "
                                \o JsonError)
       ELSE IF body.json = "null"
              THEN throws(lf, "TypeError: Cannot destructure property 'status'")
       ELSE IF body.status = "CONFIRMED"
              THEN returnsResult(lf, SuccessfulConfirm)
       ELSE returnsResult(
              lf, UnsuccessfulConfirm(
                    makeErrorCodeFromLoginConfirmationError(body.title, locale)))

----------------------------------------------------------------------------
\* Actions

Init ==
  /\ \E o \in ClientOptionsSet :
       _STORAGE = setOptions(
         [baseUrl |-> "https://superface.ai", authToken |-> None,
          authTokenExpiresAt |-> None, refreshToken |-> Undefined,
          commonHeaders |-> None, refreshTokenUpdatedHandler |-> Undefined], o)
  /\ nowMs = StartMs
  /\ local = [t \in Tasks |-> Blank]

Idle(t) == local[t].pc = "idle"

\* Time passes while calls are suspended on the network or asleep, and between
\* calls.  A finished call's result is observed at the instant it completes,
\* and the refresh-token handler takes no time the clock can measure.
Tick ==
  /\ nowMs < EndMs
  /\ \A t \in Tasks : local[t].pc \notin {"done", "handler_wait"}
  /\ nowMs' = nowMs + TickMs
  /\ UNCHANGED <<_STORAGE, local>>

\* The caller takes the result of a finished call.
Resume(t) ==
  /\ local[t].pc = "done"
  /\ local' = [local EXCEPT ![t] = Blank]
  /\ UNCHANGED <<_STORAGE, nowMs>>

SetOptions(t) ==
  /\ Idle(t)
  /\ \E o \in ClientOptionsSet :
       /\ _STORAGE' = setOptions(_STORAGE, o)
       /\ local' = [local EXCEPT
                      ![t] = returnsVoid([Blank EXCEPT
                                            !.op = "setOptions",
                                            !.before = Some(_STORAGE),
                                            !.given = Some(o)])]
  /\ UNCHANGED nowMs

Login(t) ==
  /\ Idle(t)
  /\ \E authToken \in AuthTokens :
       LET r == login(_STORAGE, [Blank EXCEPT !.op = "login", !.ret = "login",
                                    !.before = Some(_STORAGE)],
                      authToken, nowMs)
       IN /\ _STORAGE' = r.st
          /\ local' = [local EXCEPT ![t] = r.l]
  /\ UNCHANGED nowMs

Logout(t) ==
  /\ Idle(t)
  /\ LET r == logout(_STORAGE,
                     [Blank EXCEPT
                        !.op = "logout", !.ret = "logout",
                        !.before = Some(_STORAGE),
                        !.inflight =
                           {u \in Tasks \ {t} :
                              local[u].pc \notin {"idle", "done"}}])
     IN /\ _STORAGE' = r.st
        /\ local' = [local EXCEPT ![t] = r.l]
  /\ UNCHANGED nowMs

\* The refresh-token handler's promise settles: it resolves or it rejects.
HandlerSettles(t) ==
  /\ local[t].pc = "handler_wait"
  /\ \E resolved \in BOOLEAN :
       local' = [local EXCEPT
                   ![t] = IF resolved
                            THEN afterLogin(_STORAGE, local[t])
                            ELSE throws(local[t], "handler rejected")]
  /\ UNCHANGED <<_STORAGE, nowMs>>

RefreshAccessToken(t) ==
  /\ Idle(t)
  /\ \E cookie \in {Undefined, "", "custom=1"} :
       local' = [local EXCEPT
                   ![t] = refreshAccessToken(
                            _STORAGE,
                            [Blank EXCEPT !.op = "refreshAccessToken",
                                          !.before = Some(_STORAGE)],
                            cookie, "refresh_top")]
  /\ UNCHANGED <<_STORAGE, nowMs>>

\* TokenResponse with every 2xx answer taken for a token.
TokenResponse_anySuccess(t) ==
  /\ local[t].pc = "token_wait"
  /\ \E status \in TokenStatuses, body \in IssuedTokens :
       IF status \notin {200, 201}
         THEN /\ local' = [local EXCEPT
                             ![t] = afterRefresh(_STORAGE,
                                                 answer(local[t], status, None),
                                                 None)]
              /\ UNCHANGED _STORAGE
         ELSE LET r == login(_STORAGE, answer(local[t], status, Some(body)),
                             body, nowMs)
              IN /\ _STORAGE' = r.st
                 /\ local' = [local EXCEPT ![t] = r.l]
  /\ UNCHANGED nowMs

\* The token endpoint answers (lines 204-211).
TokenResponse(t) ==
  /\ local[t].pc = "token_wait"
  /\ \E status \in TokenStatuses, body \in IssuedTokens :
       IF status # 201
         THEN /\ local' = [local EXCEPT
                             ![t] = afterRefresh(_STORAGE,
                                                 answer(local[t], status, None),
                                                 None)]
              /\ UNCHANGED _STORAGE
         ELSE LET r == login(_STORAGE, answer(local[t], status, Some(body)),
                             body, nowMs)
              IN /\ _STORAGE' = r.st
                 /\ local' = [local EXCEPT ![t] = r.l]
  /\ UNCHANGED nowMs

Fetch(t) ==
  /\ Idle(t)
  /\ \E o \in RequestOptionsSet :
       local' = [local EXCEPT ![t] = fetchBegin(_STORAGE, o, nowMs)]
  /\ UNCHANGED <<_STORAGE, nowMs>>

PrimaryResponse(t) ==
  /\ local[t].pc = "primary_wait"
  /\ \E status \in FetchStatuses :
       local' = [local EXCEPT
                   ![t] = fetchPrimaryAnswered(_STORAGE, local[t], status)]
  /\ UNCHANGED <<_STORAGE, nowMs>>

RetryResponse(t) ==
  /\ local[t].pc = "retry_wait"
  /\ \E status \in FetchStatuses :
       local' = [local EXCEPT
                   ![t] = fetchRetryAnswered(_STORAGE, local[t], status)]
  /\ UNCHANGED <<_STORAGE, nowMs>>

\* crossfetch.fetch rejects.
TransportFailure(t) ==
  /\ local[t].pc \in {"token_wait", "primary_wait", "retry_wait", "verify_wait",
                      "signout_wait", "passwordless_wait"}
  /\ local' = [local EXCEPT ![t] = transportFailed(_STORAGE, local[t])]
  /\ UNCHANGED <<_STORAGE, nowMs>>

VerifyLogin(t) ==
  /\ Idle(t)
  /\ \E o \in VerifyOptionsSet :
       local' = [local EXCEPT ![t] = verifyBegin(o, nowMs)]
  /\ UNCHANGED <<_STORAGE, nowMs>>

VerifyResponse(t) ==
  /\ local[t].pc = "verify_wait"
  /\ \E resp \in VerifyResponses :
       LET r == fetchVerifyLogin(_STORAGE, local[t], resp, nowMs)
       IN /\ _STORAGE' = r.st
          /\ local' = [local EXCEPT ![t] = r.l]
  /\ UNCHANGED nowMs

\* sleep(pollingIntervalMilliseconds) is over (line 74, line 1062): the timer
\* fires no earlier than asked, and the loop comes round to its head.
Wake(t) ==
  /\ local[t].pc = "sleeping"
  /\ nowMs >= local[t].wakeAt
  /\ local' = [local EXCEPT ![t] = verifyLoop(local[t], nowMs)]
  /\ UNCHANGED <<_STORAGE, nowMs>>

\* The owner of the cancellation token asks for cancellation while the
\* verification is suspended.
Cancel(t) ==
  /\ local[t].pc \in {"verify_wait", "sleeping"}
  /\ local[t].cancellationToken # None
  /\ ~local[t].cancellationToken[1].isCancellationRequested
  /\ local' = [local EXCEPT
                 ![t].cancellationToken[1].isCancellationRequested = TRUE,
                 ![t].cancelRequestedAfter =
                    Cardinality({i \in 1..Len(local[t].log) :
                                   local[t].log[i].res # 0})]
  /\ UNCHANGED <<_STORAGE, nowMs>>

TaskStep(t) ==
  \/ Resume(t)
  \/ SetOptions(t)
  \/ Login(t)
  \/ Logout(t)
  \/ HandlerSettles(t)
  \/ RefreshAccessToken(t)
  \/ TokenResponse(t)
  \/ Fetch(t)
  \/ PrimaryResponse(t)
  \/ RetryResponse(t)
  \/ TransportFailure(t)
  \/ VerifyLogin(t)
  \/ VerifyResponse(t)
  \/ Wake(t)
  \/ Cancel(t)

\* One call at a time (spec section 5: callers do not overlap calls).
Next == Tick \/ TaskStep("a")

Spec == Init /\ [][Next]_vars

\* The session under tokens of any lifetime.  The server chooses expires_in:
\* it may be zero or negative (a token that is already stale), and as large
\* in size as the clock's reading in seconds.
SignedTokens ==
  [access_token : {"AT1"}, expires_in : (0 - 3)..1,
   refresh_token : {Undefined, "RT1"}]

LoginSigned(t) ==
  /\ Idle(t)
  /\ \E authToken \in SignedTokens :
       LET r == login(_STORAGE, [Blank EXCEPT !.op = "login", !.ret = "login",
                                    !.before = Some(_STORAGE)],
                      authToken, nowMs)
       IN /\ _STORAGE' = r.st
          /\ local' = [local EXCEPT ![t] = r.l]
  /\ UNCHANGED nowMs

IsAccessTokenExpired(t) ==
  /\ Idle(t)
  /\ local' = [local EXCEPT
                 ![t] = returnsBoolean(
                          [Blank EXCEPT !.op = "isAccessTokenExpired"],
                          isAccessTokenExpired(_STORAGE, nowMs))]
  /\ UNCHANGED <<_STORAGE, nowMs>>

SessionNext ==
  \/ Tick
  \/ Resume("a")
  \/ SetOptions("a")
  \/ LoginSigned("a")
  \/ Logout("a")
  \/ HandlerSettles("a")
  \/ IsAccessTokenExpired("a")

SessionSpec == Init /\ [][SessionNext]_vars

SignOut(t) ==
  /\ Idle(t)
  /\ local' = [local EXCEPT
                 ![t] = signOut(_STORAGE,
                                [Blank EXCEPT !.op = "signOut",
                                              !.before = Some(_STORAGE)])]
  /\ UNCHANGED <<_STORAGE, nowMs>>

SignOutResponse(t) ==
  /\ local[t].pc = "signout_wait"
  /\ \E status \in SignOutStatuses :
       LET r == signOutAnswered(_STORAGE, local[t], status)
       IN /\ _STORAGE' = r.st
          /\ local' = [local EXCEPT ![t] = r.l]
  /\ UNCHANGED nowMs

\* The session operations with the requests that carry the refresh token:
\* the token refresh and the sign-out.
AccountNext ==
  \/ Tick
  \/ Resume("a")
  \/ SetOptions("a")
  \/ Login("a")
  \/ Logout("a")
  \/ HandlerSettles("a")
  \/ RefreshAccessToken("a")
  \/ TokenResponse("a")
  \/ SignOut("a")
  \/ SignOutResponse("a")
  \/ TransportFailure("a")

AccountSpec == Init /\ [][AccountNext]_vars

PasswordlessLogin(t) ==
  /\ Idle(t)
  /\ local' = [local EXCEPT
                 ![t] = passwordlessLogin(
                          _STORAGE, [Blank EXCEPT !.op = "passwordlessLogin"])]
  /\ UNCHANGED <<_STORAGE, nowMs>>

\* The login endpoint answers; sent keeps the answer's body beside the call.
PasswordlessResponse(t) ==
  /\ local[t].pc = "passwordless_wait"
  /\ \E status \in PasswordlessStatuses, body \in PasswordlessBodies :
       local' = [local EXCEPT
                   ![t] = [passwordlessAnswered(local[t], status, body)
                             EXCEPT !.sent = Some(body)]]
  /\ UNCHANGED <<_STORAGE, nowMs>>

ConfirmPasswordlessLogin(t) ==
  /\ Idle(t)
  /\ local' = [local EXCEPT ![t] = confirmPasswordlessLogin(_STORAGE, nowMs)]
  /\ UNCHANGED <<_STORAGE, nowMs>>

\* The confirmation endpoint answers, on a host of some locale.
ConfirmResponse(t) ==
  /\ local[t].pc = "primary_wait"
  /\ local[t].op = "confirmPasswordlessLogin"
  /\ \E status \in ConfirmStatuses, body \in ConfirmBodies, locale \in Locales :
       local' = [local EXCEPT
                   ![t] = [confirmAnswered(_STORAGE, local[t], status, body,
                                           locale)
                             EXCEPT !.sent = Some(body), !.locale = locale]]
  /\ UNCHANGED <<_STORAGE, nowMs>>

\* The passwordless login without its polling: the request for the magic
\* link and the confirmation by code.
PasswordlessNext ==
  \/ Resume("a")
  \/ SetOptions("a")
  \/ PasswordlessLogin("a")
  \/ PasswordlessResponse("a")
  \/ ConfirmPasswordlessLogin("a")
  \/ ConfirmResponse("a")
  \/ TransportFailure("a")

PasswordlessSpec == Init /\ [][PasswordlessNext]_vars

\* One passwordless verification on a new client, followed to its end.  Past the
\* horizon EndMs the clock still runs while a verification sleeps: the time
\* of its sleep passes.
Sleep ==
  /\ nowMs >= EndMs
  /\ \E t \in Tasks :
       /\ local[t].pc = "sleeping"
       /\ local[t].wakeAt > nowMs
       /\ nowMs' = local[t].wakeAt
  /\ UNCHANGED <<_STORAGE, local>>

\* The options of the verification followed to its end: the default timeout
\* of 60 s is polled at an interval of 30 s, a timeout of 0 to 2 s at the
\* interval of 1 s, given or by default.
PacedVerifyOptionsSet ==
  {o \in [pollingTimeoutSeconds : {None, Some(0), Some(1), Some(2)},
          pollingIntervalSeconds : {None, Some(1), Some(30)},
          cancellationToken : {None} \cup {Some(c) : c \in CancellationTokens}] :
     o.pollingTimeoutSeconds = None
       <=> o.pollingIntervalSeconds = Some(30)}

VerifyLoginPaced(t) ==
  /\ Idle(t)
  /\ \E o \in PacedVerifyOptionsSet :
       local' = [local EXCEPT ![t] = verifyBegin(o, nowMs)]
  /\ UNCHANGED <<_STORAGE, nowMs>>

VerifyNext ==
  \/ Tick
  \/ Sleep
  \/ VerifyLoginPaced("a")
  \/ VerifyResponse("a")
  \/ TransportFailure("a")
  \/ HandlerSettles("a")
  \/ Wake("a")
  \/ Cancel("a")

\* The clock runs, a timer that is due fires, and a request on the wire and
\* the handler's promise settle.
VerifyFairness ==
  /\ WF_vars(Tick)
  /\ WF_vars(Sleep)
  /\ WF_vars(Wake("a"))
  /\ WF_vars(VerifyResponse("a") \/ TransportFailure("a"))
  /\ WF_vars(HandlerSettles("a"))

VerifySpec == Init /\ [][VerifyNext]_vars /\ VerifyFairness

\* The caller hands the options object of a fetch that has finished, its
\* primary request sent, to a second fetch: the object is as the first call
\* left it.
FetchAgain(t) ==
  /\ local[t].pc = "done"
  /\ local[t].op = "fetch"
  /\ local[t].reused = None
  /\ \E i \in 1..Len(local[t].log) : local[t].log[i].kind = "primary"
  /\ local' = [local EXCEPT
                 ![t] = [fetchBegin(_STORAGE, local[t].opts, nowMs) EXCEPT
                           !.reused =
                              Some([useAuthentication |->
                                      local[t].useAuthentication,
                                    callerHeaders |-> local[t].callerHeaders,
                                    headers |-> local[t].log[
                                      CHOOSE i \in 1..Len(local[t].log) :
                                        local[t].log[i].kind = "primary"
                                    ].headers])]]
  /\ UNCHANGED <<_STORAGE, nowMs>>

ReuseNext ==
  \/ Resume("a")
  \/ Login("a")
  \/ HandlerSettles("a")
  \/ Fetch("a")
  \/ FetchAgain("a")
  \/ TokenResponse("a")
  \/ PrimaryResponse("a")
  \/ RetryResponse("a")
  \/ TransportFailure("a")

ReuseSpec == Init /\ [][ReuseNext]_vars

\* Two callers on one client, constructed without common headers, within one
\* reading of the clock (a token of lifetime 0 is expired as soon as it is
\* stored).  Task a makes its calls one after another: login, logout and an
\* authenticated fetch without headers of its own.  Task b makes one call,
\* which overlaps those of a: such a fetch, or a verification with the
\* default options, followed to the answer of its first poll.
FetchAuthenticated(t) ==
  /\ Idle(t)
  /\ local' = [local EXCEPT
                 ![t] = fetchBegin(_STORAGE,
                                   [authenticate |-> "absent",
                                    headers |-> EmptyObject,
                                    credentials |-> Undefined],
                                   nowMs)]
  /\ UNCHANGED <<_STORAGE, nowMs>>

VerifyLoginDefault(t) ==
  /\ Idle(t)
  /\ local' = [local EXCEPT
                 ![t] = verifyBegin([pollingTimeoutSeconds |-> None,
                                     pollingIntervalSeconds |-> None,
                                     cancellationToken |-> None],
                                    nowMs)]
  /\ UNCHANGED <<_STORAGE, nowMs>>

\* What the servers answer the overlapping calls with: the token endpoint
\* grants one of two tokens or refuses, the API answers 200 or 401, and the
\* verify endpoint answers 200 with a token or 400 PENDING.
ConcurrentTokens ==
  {[access_token |-> "AT1", expires_in |-> 1, refresh_token |-> Undefined],
   [access_token |-> "AT2", expires_in |-> 1, refresh_token |-> "RT1"]}

ConcurrentTokenResponse(t) ==
  /\ local[t].pc = "token_wait"
  /\ \/ /\ local' = [local EXCEPT
                        ![t] = afterRefresh(_STORAGE,
                                            answer(local[t], 401, None),
                                            None)]
        /\ UNCHANGED _STORAGE
     \/ \E body \in ConcurrentTokens :
          LET r == login(_STORAGE, answer(local[t], 201, Some(body)),
                         body, nowMs)
          IN /\ _STORAGE' = r.st
             /\ local' = [local EXCEPT ![t] = r.l]
  /\ UNCHANGED nowMs

ConcurrentPrimaryResponse(t) ==
  /\ local[t].pc = "primary_wait"
  /\ \E status \in {200, 401} :
       local' = [local EXCEPT
                   ![t] = fetchPrimaryAnswered(_STORAGE, local[t], status)]
  /\ UNCHANGED <<_STORAGE, nowMs>>

ConcurrentRetryResponse(t) ==
  /\ local[t].pc = "retry_wait"
  /\ \E status \in {200, 401} :
       local' = [local EXCEPT
                   ![t] = fetchRetryAnswered(_STORAGE, local[t], status)]
  /\ UNCHANGED <<_STORAGE, nowMs>>

ConcurrentVerifyResponse(t) ==
  /\ local[t].pc = "verify_wait"
  /\ \E resp \in {[status |-> 200, bodyStatus |-> Undefined, token |-> Some(tok)] :
                    tok \in ConcurrentTokens}
                 \cup {[status |-> 400, bodyStatus |-> "PENDING",
                         token |-> None]} :
       LET r == fetchVerifyLogin(_STORAGE, local[t], resp, nowMs)
       IN /\ _STORAGE' = r.st
          /\ local' = [local EXCEPT ![t] = r.l]
  /\ UNCHANGED nowMs

ConcurrentLogin(t) ==
  /\ Idle(t)
  /\ \E authToken \in {[access_token |-> "AT1", expires_in |-> e,
                         refresh_token |-> "RT1"] : e \in ExpiresIn} :
       LET r == login(_STORAGE, [Blank EXCEPT !.op = "login", !.ret = "login",
                                    !.before = Some(_STORAGE)],
                      authToken, nowMs)
       IN /\ _STORAGE' = r.st
          /\ local' = [local EXCEPT ![t] = r.l]
  /\ UNCHANGED nowMs

ConcurrentStep(t) ==
  \/ HandlerSettles(t)
  \/ FetchAuthenticated(t)
  \/ ConcurrentTokenResponse(t)
  \/ ConcurrentPrimaryResponse(t)
  \/ ConcurrentRetryResponse(t)
  \/ TransportFailure(t)

ConcurrentNext ==
  \/ Resume("a")
  \/ ConcurrentLogin("a")
  \/ Logout("a")
  \/ ConcurrentStep("a")
  \/ ConcurrentStep("b")
  \/ VerifyLoginDefault("b")
  \/ ConcurrentVerifyResponse("b")

ConcurrentInit == Init /\ _STORAGE.commonHeaders = None

ConcurrentSpec == ConcurrentInit /\ [][ConcurrentNext]_vars

----------------------------------------------------------------------------
\* Properties

Fetching(t) == local[t].op = "fetch"

Verifying(t) == local[t].op = "verifyLogin"

Returned(t) == local[t].pc = "done" /\ local[t].outcome.kind = "return"

Thrown(t) == local[t].pc = "done" /\ local[t].outcome.kind = "throw"

\* The positions in the log of the requests of one kind.
Requests(l, kind) == {i \in 1..Len(l.log) : l.log[i].kind = kind}

BearerValues == {"Bearer " \o a : a \in AccessTokens \cup {Undefined}}

\* An authenticated fetch, entered with a token that had not expired, whose
\* primary request was answered 401 or 403.
RejectedWithValidToken(t) ==
  /\ Fetching(t)
  /\ local[t].useAuthentication
  /\ ~local[t].expiredAtStart
  /\ Len(local[t].log) >= 1
  /\ local[t].log[1].res \in {401, 403}

\* C1: an authenticated fetch entered with a non-expired token whose primary
\* request is answered 401 or 403 calls refreshAccessToken exactly once and
\* sends at most one further request, the retry; when the retry is answered,
\* with whatever status, the fetch returns that response and has sent three
\* requests in all (primary, token, retry).  It ends otherwise only by an
\* exception of the token request, of the handler or of the retry.
C1_RetryOnce ==
  \A t \in Tasks :
    RejectedWithValidToken(t) =>
      LET l == local[t]
      IN /\ l.refreshCalls = 1
         /\ Len(l.log) \in {2, 3}
         /\ l.log[1].kind = "primary" /\ l.log[2].kind = "token"
         /\ Len(l.log) = 3 => l.log[3].kind = "retry"
         /\ l.pc = "done" =>
              \/ /\ l.outcome.kind = "return"
                 /\ Len(l.log) = 3
                 /\ l.log[3].res \in FetchStatuses
                 /\ l.outcome.status = l.log[3].res
              \/ /\ l.outcome.kind = "throw"
                 /\ l.outcome.error \in {"transport", "handler rejected"}

\* C1 witness: the retry was answered 401 as well, and the fetch returned it.
C1_Witness ==
  /\ RejectedWithValidToken("a")
  /\ Returned("a")
  /\ local["a"].log[1].res = 401
  /\ local["a"].outcome.status = 403
  /\ local["a"].log[2].res = 201

\* C2: in an authenticated fetch entered while isAccessTokenExpired() is
\* true, the first request is the token request and the primary request is
\* sent second, after the token request was answered; in every other fetch
\* the primary request is the first request.
C2_RefreshBeforePrimary ==
  \A t \in Tasks :
    (Fetching(t) /\ Len(local[t].log) >= 1) =>
      LET l == local[t]
      IN IF l.expiredAtStart
           THEN /\ l.log[1].kind = "token"
                /\ \A i \in Requests(l, "primary") :
                     i = 2 /\ l.log[1].res \in TokenStatuses
           ELSE l.log[1].kind = "primary"

\* C2 witness: a fetch entered with an expired session has sent its primary
\* request after a token request that was answered 201.
C2_Witness ==
  /\ Fetching("a")
  /\ local["a"].expiredAtStart
  /\ Len(local["a"].log) = 2
  /\ local["a"].log[1].res = 201
  /\ local["a"].log[2].kind = "primary"

\* C3 as claimed: one fetch issues at most one token request, one primary
\* request and one retried request.
C3_AtMostOneRefresh ==
  \A t \in Tasks :
    Fetching(t) =>
      /\ Cardinality(Requests(local[t], "token")) <= 1
      /\ Cardinality(Requests(local[t], "primary")) <= 1
      /\ Cardinality(Requests(local[t], "retry")) <= 1

\* C3 amended: one fetch issues at most two token requests (at most one before
\* the primary request, and only when the session was expired on entry; at
\* most one after it, and only after a 401 or 403), one primary request and
\* one retried request: four requests at most, in that order.
C3_AtMostTwoRefreshes ==
  \A t \in Tasks :
    Fetching(t) =>
      LET l == local[t]
          p == Requests(l, "primary")
      IN /\ Cardinality(Requests(l, "token")) <= 2
         /\ l.refreshCalls = Cardinality(Requests(l, "token"))
         /\ Cardinality(p) <= 1
         /\ Cardinality(Requests(l, "retry")) <= 1
         /\ Len(l.log) <= 4
         /\ \A i \in Requests(l, "token") :
              \/ i = 1 /\ l.expiredAtStart
              \/ /\ i - 1 \in p
                 /\ l.useAuthentication
                 /\ l.log[i - 1].res \in {401, 403}
         /\ \A i \in Requests(l, "retry") :
              i = Len(l.log) /\ i >= 3 /\ i - 2 \in p

\* C3 witness: a fetch that sent four requests.
C3_Witness ==
  /\ Fetching("a")
  /\ Returned("a")
  /\ Len(local["a"].log) = 4
  /\ Cardinality(Requests(local["a"], "token")) = 2

\* C4 as claimed: a fetch with authenticate: false never checks the expiry,
\* never calls refreshAccessToken, issues exactly one request, and that
\* request carries no Authorization header.
C4_NoAuthorizationHeader ==
  \A t \in Tasks :
    (Fetching(t) /\ ~local[t].useAuthentication) =>
      /\ local[t].expiryChecks = 0
      /\ local[t].refreshCalls = 0
      /\ Len(local[t].log) = 1
      /\ "Authorization" \notin DOMAIN local[t].log[1].headers

\* C4 amended: a fetch with authenticate: false never checks the expiry,
\* never calls refreshAccessToken (also not after a 401 or 403), issues
\* exactly one request, and that request's headers are the common headers
\* overridden by the caller's and nothing else: no bearer header is added,
\* and an Authorization header is sent exactly when the common or the
\* caller's headers hold one.
C4_NoBearerAdded ==
  \A t \in Tasks :
    (Fetching(t) /\ ~local[t].useAuthentication) =>
      LET l == local[t]
      IN /\ l.expiryChecks = 0
         /\ l.refreshCalls = 0
         /\ Len(l.log) = 1
         /\ l.log[1].kind = "primary"
         /\ l.log[1].headers =
              ObjectAssign(Spread(_STORAGE.commonHeaders), l.callerHeaders)
         /\ \A n \in DOMAIN l.log[1].headers :
              l.log[1].headers[n] \notin BearerValues
         /\ l.pc = "done" /\ l.outcome.kind = "return" =>
              l.outcome.status = l.log[1].res

\* C4 witness: an unauthenticated fetch on a session holding a token was
\* answered 401 and returned it, having sent the common Authorization header.
C4_Witness ==
  /\ Fetching("a")
  /\ ~local["a"].useAuthentication
  /\ Returned("a")
  /\ local["a"].outcome.status = 401
  /\ _STORAGE.authToken # None
  /\ "Authorization" \in DOMAIN local["a"].log[1].headers

\* C5: within one fetch, the request that follows a token request answered
\* 201 carries Authorization: Bearer <access_token of the token in that
\* answer>.
C5_BearerAfterRefresh ==
  \A t \in Tasks :
    Fetching(t) =>
      LET l == local[t]
      IN \A i \in Requests(l, "token") :
           (l.log[i].res = 201 /\ i < Len(l.log)) =>
             /\ "Authorization" \in DOMAIN l.log[i + 1].headers
             /\ l.log[i + 1].headers["Authorization"] =
                  "Bearer " \o l.log[i].body[1].access_token

\* C5 witness: the retry carries the token of the second refresh, which is
\* not the one the primary request carried.
C5_Witness ==
  /\ Fetching("a")
  /\ Len(local["a"].log) = 4
  /\ local["a"].log[1].res = 201
  /\ local["a"].log[3].res = 201
  /\ local["a"].log[1].body # local["a"].log[3].body
  /\ local["a"].log[2].headers["Authorization"] = "Bearer AT1"
  /\ local["a"].log[4].headers["Authorization"] = "Bearer AT2"
  /\ "Authorization" \in DOMAIN local["a"].callerHeaders

\* C6: the headers of every primary and retried request of a fetch are the
\* common headers, overridden by the caller's headers, overridden (when the
\* fetch authenticates) by the bearer Authorization header: each name sent
\* is a name of some layer and carries the value of the highest layer that
\* has it; on an authenticated request the Authorization value is the bearer
\* of the session's token, never the common or the caller's value.
C6_HeaderLayers ==
  \A t \in Tasks :
    Fetching(t) =>
      LET l == local[t]
          common == Spread(_STORAGE.commonHeaders)
      IN \A i \in Requests(l, "primary") \cup Requests(l, "retry") :
           LET h == l.log[i].headers
           IN /\ DOMAIN h =
                   (DOMAIN common) \cup (DOMAIN l.callerHeaders)
                     \cup (IF l.useAuthentication THEN {"Authorization"}
                           ELSE {})
              /\ \A n \in DOMAIN h :
                   IF l.useAuthentication /\ n = "Authorization"
                     THEN /\ h[n] \in BearerValues
                          /\ l.log[i].res = 0 => h[n] = bearer(_STORAGE)
                     ELSE IF n \in DOMAIN l.callerHeaders
                            THEN h[n] = l.callerHeaders[n]
                            ELSE h[n] = common[n]

\* C6 witness: an authenticated retry in flight whose Authorization and
\* Accept names are held by the common and by the caller's headers too.
C6_Witness ==
  /\ Fetching("a")
  /\ local["a"].useAuthentication
  /\ local["a"].pc = "retry_wait"
  /\ _STORAGE.commonHeaders # None
  /\ "Authorization" \in DOMAIN Spread(_STORAGE.commonHeaders)
  /\ "Authorization" \in DOMAIN local["a"].callerHeaders
  /\ "Accept" \in DOMAIN local["a"].callerHeaders
  /\ _STORAGE.authToken # None

\* C7: a request of a fetch that fails in the transport is the last request
\* of that fetch, and the fetch has rejected with the transport's error.
C7_TransportPropagates ==
  \A t \in Tasks :
    Fetching(t) =>
      LET l == local[t]
      IN \A i \in 1..Len(l.log) :
           l.log[i].res = NetworkError =>
             /\ i = Len(l.log)
             /\ l.pc = "done"
             /\ l.outcome.kind = "throw"
             /\ l.outcome.error = "transport"

\* C7 witness: the primary request of a fetch failed in the transport.
C7_Witness ==
  /\ Fetching("a")
  /\ Thrown("a")
  /\ local["a"].log[Len(local["a"].log)].kind = "primary"
  /\ local["a"].log[Len(local["a"].log)].res = NetworkError

\* C8: a verifyLogin that returns gives one status of CONFIRMED, EXPIRED,
\* USED, POLLING_TIMEOUT, POLLING_CANCELLED, never PENDING, and its result
\* carries an authToken exactly when the status is CONFIRMED.
C8_VerifyStatus ==
  \A t \in Tasks :
    (Verifying(t) /\ Returned(t)) =>
      /\ local[t].outcome.verificationStatus \in
           {"CONFIRMED", "EXPIRED", "USED", "POLLING_TIMEOUT",
            "POLLING_CANCELLED"}
      /\ local[t].outcome.authToken # None
           <=> local[t].outcome.verificationStatus = "CONFIRMED"

\* C8 witness: a verifyLogin returned CONFIRMED with a token after a pending
\* poll.
C8_Witness ==
  /\ Verifying("a")
  /\ Returned("a")
  /\ local["a"].outcome.verificationStatus = "CONFIRMED"
  /\ local["a"].outcome.authToken # None
  /\ Len(local["a"].log) = 2

\* C9: when verifyLogin returns CONFIRMED, login was called exactly once,
\* with the token of the 200 answer; the result carries that token, the
\* session holds it, and if its expires_in is positive the session is not
\* expired.
C9_ConfirmedLogsIn ==
  \A t \in Tasks :
    (/\ Verifying(t)
     /\ Returned(t)
     /\ local[t].outcome.verificationStatus = "CONFIRMED") =>
      LET l == local[t]
          last == l.log[Len(l.log)]
      IN /\ last.res = 200
         /\ Len(l.loginCalls) = 1
         /\ Some(l.loginCalls[1]) = last.body
         /\ l.outcome.authToken = last.body
         /\ _STORAGE.authToken = last.body
         /\ last.body[1].expires_in > 0 =>
              ~isAccessTokenExpired(_STORAGE, nowMs)

\* C9 witness: verifyLogin returned CONFIRMED, the handler having been told of
\* a new refresh token, on a clock that has moved since the client was made.
C9_Witness ==
  /\ Verifying("a")
  /\ Returned("a")
  /\ local["a"].outcome.verificationStatus = "CONFIRMED"
  /\ local["a"].outcome.authToken[1].expires_in > 0
  /\ Len(local["a"].notified) = 1
  /\ nowMs > StartMs + MsPerSec

\* C10: a verifyLogin whose cancellation was requested before its first poll
\* was answered never returns POLLING_TIMEOUT, whatever pollingTimeoutSeconds
\* is: it returns POLLING_CANCELLED, or the terminal status the server gave.
C10_CancelledNotTimedOut ==
  \A t \in Tasks :
    (Verifying(t) /\ Returned(t) /\ local[t].cancelRequestedAfter = 0) =>
      local[t].outcome.verificationStatus \in
        {"POLLING_CANCELLED", "CONFIRMED", "USED", "EXPIRED"}

\* A verification in which no cancellation was requested and every answered
\* poll was a 400 whose body said PENDING.
PendingRun(t) ==
  /\ Verifying(t)
  /\ local[t].cancelRequestedAfter = -1
  /\ \A i \in 1..Len(local[t].log) : local[t].log[i].res \in {0, 400}
  /\ \A i \in 1..Len(local[t].polled) : local[t].polled[i] = "PENDING"

TimedOut(t) ==
  Returned(t) /\ local[t].outcome.verificationStatus = "POLLING_TIMEOUT"

\* C11: a verifyLogin in which every poll is answered 400 PENDING and no
\* cancellation is requested comes to an end, and its end is the return of
\* POLLING_TIMEOUT at an elapsed time of at least the timeout: it does not
\* throw and returns no other status.
C11_PendingTimesOut ==
  /\ [](\A t \in Tasks :
         (PendingRun(t) /\ local[t].pc = "done") =>
           /\ TimedOut(t)
           /\ nowMs - local[t].startPollingTimeStamp
                >= local[t].timeoutMilliseconds)
  /\ \A t \in Tasks :
       (PendingRun(t) /\ local[t].pc # "done")
         ~> (~PendingRun(t) \/ TimedOut(t))

\* C11 witness: a verification with the default timeout of 60 s returned
\* POLLING_TIMEOUT after polls that were all answered PENDING.
C11_Witness ==
  /\ PendingRun("a")
  /\ TimedOut("a")
  /\ local["a"].timeoutMilliseconds = DEFAULT_POLLING_TIMEOUT_SECONDS * MsPerSec
  /\ Len(local["a"].polled) >= 2
  /\ local["a"].cancellationToken # None

Cancelled(t) ==
  Returned(t) /\ local[t].outcome.verificationStatus = "POLLING_CANCELLED"

\* C12: in a verifyLogin, cancellationFinished is called, and the token's
\* callback (when it has one) invoked, exactly once when the call returns
\* POLLING_CANCELLED and never otherwise.  The call returns POLLING_CANCELLED
\* at a poll answered PENDING with the flag set: no request follows that poll
\* and no sleep (every sleep follows an earlier PENDING poll).  Once the
\* cancellation is requested with k polls answered, at most one more poll is
\* answered and no sleep is begun; if that poll is answered PENDING the call
\* has returned POLLING_CANCELLED.
C12_CancelAfterPending ==
  \A t \in Tasks :
    Verifying(t) =>
      LET l == local[t]
          k == l.cancelRequestedAfter
          n == Len(l.polled)
      IN /\ l.cancellationFinishedCalls = IF Cancelled(t) THEN 1 ELSE 0
         /\ l.callbackCalls =
              IF Cancelled(t) /\ l.cancellationToken[1].onCancelledCallback
                THEN 1 ELSE 0
         /\ Cancelled(t) =>
              /\ k >= 0
              /\ n >= 1 /\ n = Len(l.log)
              /\ l.log[n].res = 400 /\ l.polled[n] = "PENDING"
              /\ l.sleeps = n - 1
         /\ k >= 0 =>
              /\ n <= k + 1
              /\ l.sleeps <= k
              /\ Len(l.log) <= k + 1
              /\ (n = k + 1 /\ l.log[n].res = 400 /\ l.polled[n] = "PENDING")
                   => Cancelled(t)
         /\ k = -1 => l.callbackCalls = 0 /\ ~Cancelled(t)

\* C12 witness: the cancellation was requested during the second poll, which
\* was answered PENDING; the callback was invoked and POLLING_CANCELLED
\* returned.
C12_Witness ==
  /\ Cancelled("a")
  /\ local["a"].cancelRequestedAfter = 1
  /\ Len(local["a"].polled) = 2
  /\ local["a"].callbackCalls = 1
  /\ local["a"].sleeps = 1

\* The verification request of task t is answered in this step.
PollAnswered(t) ==
  /\ local[t].pc = "verify_wait"
  /\ Len(local'[t].polled) = Len(local[t].polled) + 1

\* C13: the step in which a poll of verifyLogin is answered 400 USED or
\* 400 EXPIRED ends the call with that status as its result and no token,
\* leaves the session as it was, and calls neither login nor
\* cancellationFinished, whether or not the cancellation is requested or the
\* timeout has elapsed; in the whole call that poll is the last request, every
\* sleep precedes it and login was never called.
C13_UsedOrExpiredEnds ==
  /\ [][\A t \in Tasks :
          (/\ PollAnswered(t)
           /\ local'[t].log[Len(local'[t].log)].res = 400
           /\ local'[t].polled[Len(local'[t].polled)] \in {"USED", "EXPIRED"})
            => /\ local'[t].pc = "done"
               /\ local'[t].outcome =
                    [NoOutcome EXCEPT
                       !.kind = "return",
                       !.verificationStatus =
                          local'[t].polled[Len(local'[t].polled)]]
               /\ _STORAGE' = _STORAGE
               /\ Len(local'[t].log) = Len(local[t].log)
               /\ local'[t].sleeps = local[t].sleeps
               /\ local'[t].loginCalls = local[t].loginCalls
               /\ local'[t].cancellationFinishedCalls = 0]_vars
  /\ [](\A t \in Tasks :
         Verifying(t) =>
           \A i \in 1..Len(local[t].polled) :
             (local[t].log[i].res = 400
                /\ local[t].polled[i] \in {"USED", "EXPIRED"}) =>
               /\ i = Len(local[t].log)
               /\ local[t].sleeps = i - 1
               /\ local[t].loginCalls = <<>>
               /\ local[t].notified = <<>>
               /\ Returned(t)
               /\ local[t].outcome.verificationStatus = local[t].polled[i])

\* C13 witness: on a session holding a token, the second poll was answered
\* USED while the cancellation was requested and the default timeout far off.
C13_Witness ==
  /\ Verifying("a")
  /\ Returned("a")
  /\ local["a"].outcome.verificationStatus = "USED"
  /\ Len(local["a"].polled) = 2
  /\ local["a"].cancelRequestedAfter = 1
  /\ local["a"].timeoutMilliseconds = DEFAULT_POLLING_TIMEOUT_SECONDS * MsPerSec
  /\ _STORAGE.authToken # None

\* The answered polls of a call that fetchVerifyLogin has no result for: a
\* status code other than 200 and 400, or a 400 whose body status is none of
\* PENDING, USED, EXPIRED.
UnknownAnswers(l) ==
  {i \in 1..Len(l.polled) :
     \/ l.log[i].res \notin {200, 400}
     \/ /\ l.log[i].res = 400
        /\ l.polled[i] \notin {"PENDING", "USED", "EXPIRED"}}

\* C14: a poll of verifyLogin answered with a status code other than 200 and
\* 400, or with a 400 whose body status is none of PENDING, USED, EXPIRED, is
\* the last request of the call, and the call has thrown the error of that
\* answer: it has no status result, did not sleep after that poll, and did
\* not call login or cancellationFinished.
C14_UnknownAnswerThrows ==
  \A t \in Tasks :
    Verifying(t) =>
      \A i \in UnknownAnswers(local[t]) :
        /\ i = Len(local[t].log)
        /\ Thrown(t)
        /\ local[t].outcome.error =
             IF local[t].log[i].res = 400
               THEN "Token verification failed with error"
               ELSE "Unexpected status code received"
        /\ local[t].outcome.verificationStatus = ""
        /\ local[t].sleeps = i - 1
        /\ local[t].loginCalls = <<>>
        /\ local[t].cancellationFinishedCalls = 0

\* C14 witness: the second poll was answered 400 with the body status
\* CONFIRMED, the cancellation having been requested, and the call threw.
C14_Witness ==
  /\ Verifying("a")
  /\ Thrown("a")
  /\ Len(local["a"].polled) = 2
  /\ local["a"].log[2].res = 400
  /\ local["a"].polled[2] = "CONFIRMED"
  /\ local["a"].cancelRequestedAfter = 1

\* C15: when verifyLogin returns POLLING_TIMEOUT, the time elapsed since the
\* call began is at least pollingTimeoutSeconds, or 60 s when the option was
\* not given.
C15_NoEarlyTimeout ==
  \A t \in Tasks :
    (Verifying(t) /\ TimedOut(t)) =>
      nowMs - local[t].startPollingTimeStamp >=
        (IF local[t].pollingTimeoutSeconds = None
           THEN 60
           ELSE local[t].pollingTimeoutSeconds[1]) * MsPerSec

\* C15 witness: a verification without the timeout option returned
\* POLLING_TIMEOUT, having polled twice, more than 60 s after it began.
C15_Witness ==
  /\ Verifying("a")
  /\ TimedOut("a")
  /\ local["a"].pollingTimeoutSeconds = None
  /\ Len(local["a"].polled) = 2
  /\ nowMs - local["a"].startPollingTimeStamp > 60 * MsPerSec

\* C16 as claimed: isAccessTokenExpired() returns true on a session without
\* a token; on a session with a token it returns true when
\* authTokenExpiresAt <= now and false when authTokenExpiresAt > now,
\* whatever the expiry and the clock.
C16_ExpiredIffPastExpiry ==
  \A t \in Tasks :
    (local[t].op = "isAccessTokenExpired" /\ Returned(t)) =>
      local[t].outcome.value =
        IF _STORAGE.authToken = None
          THEN TRUE
          ELSE _STORAGE.authTokenExpiresAt[1] <= getCurrentTime(nowMs)

\* C17: once login(token) has stored the token (while it awaits the handler
\* and when it has returned or thrown), the session's authToken is that token
\* whatever the session held before, authTokenExpiresAt is the current time
\* in seconds plus the token's expires_in, and for a positive expires_in
\* isAccessTokenExpired() is false.
C17_LoginStoresToken ==
  \A t \in Tasks :
    (local[t].op = "login" /\ local[t].pc \in {"handler_wait", "done"}) =>
      /\ Len(local[t].loginCalls) = 1
      /\ _STORAGE.authToken = Some(local[t].loginCalls[1])
      /\ _STORAGE.authTokenExpiresAt =
           Some(getCurrentTime(nowMs) + local[t].loginCalls[1].expires_in)
      /\ local[t].loginCalls[1].expires_in > 0 =>
           ~isAccessTokenExpired(_STORAGE, nowMs)

\* C17 witness: login returned on a session that held another token, which
\* had expired.
C17_Witness ==
  /\ local["a"].op = "login"
  /\ Returned("a")
  /\ local["a"].before[1].authToken # None
  /\ local["a"].before[1].authToken # _STORAGE.authToken
  /\ isAccessTokenExpired(local["a"].before[1], nowMs)
  /\ local["a"].loginCalls[1].expires_in > 0
  /\ Len(local["a"].notified) = 1

\* C18: once logout() has cleared the session (while it awaits the handler
\* and when it has returned or thrown), authToken, authTokenExpiresAt and
\* refreshToken are absent whatever they were, isAccessTokenExpired() is
\* true, baseUrl and commonHeaders are what they were, and the cookie built
\* from the session is "user_session=" with nothing after it; a
\* refreshAccessToken called without a cookie option on a session as logout
\* leaves it sends its request with exactly that cookie.
C18_LogoutClears ==
  \A t \in Tasks :
    /\ (local[t].op = "logout" /\ local[t].pc \in {"handler_wait", "done"}) =>
         /\ _STORAGE.authToken = None
         /\ _STORAGE.authTokenExpiresAt = None
         /\ _STORAGE.refreshToken = Undefined
         /\ isAccessTokenExpired(_STORAGE, nowMs)
         /\ _STORAGE.baseUrl = local[t].before[1].baseUrl
         /\ _STORAGE.commonHeaders = local[t].before[1].commonHeaders
         /\ getRefreshTokenCookie(_STORAGE, Undefined) = "user_session="
    /\ (/\ local[t].op = "refreshAccessToken"
        /\ local[t].before[1].authToken = None
        /\ local[t].before[1].authTokenExpiresAt = None
        /\ local[t].before[1].refreshToken = Undefined
        /\ local[t].cookie = Undefined
        /\ Len(local[t].log) >= 1) =>
         local[t].log[1].headers["cookie"] = "user_session="

\* C18 witness: logout returned, having told the handler, on a session that
\* held a token with a refresh token, a refresh token of the options and
\* common headers.
C18_Witness ==
  /\ local["a"].op = "logout"
  /\ Returned("a")
  /\ local["a"].before[1].authToken # None
  /\ local["a"].before[1].authToken[1].refresh_token = "RT1"
  /\ local["a"].before[1].refreshToken = "RT0"
  /\ local["a"].before[1].commonHeaders # None
  /\ local["a"].before[1].baseUrl = "http://baseurl"
  /\ local["a"].notified = <<(<<"http://baseurl", "null">>)>>

Refreshing(t) == local[t].op = "refreshAccessToken"

\* C19: a refreshAccessToken whose token request is answered with a status
\* other than 201 has returned null: it has not thrown, login was not called,
\* the handler was not invoked, and the session is in every field what the
\* call found.
C19_RefusedRefreshReturnsNull ==
  \A t \in Tasks :
    (/\ Refreshing(t)
     /\ Len(local[t].log) = 1
     /\ local[t].log[1].res \in TokenStatuses \ {201}) =>
      /\ Returned(t)
      /\ local[t].outcome.authToken = None
      /\ local[t].loginCalls = <<>>
      /\ local[t].notified = <<>>
      /\ _STORAGE = local[t].before[1]

\* C19 witness: the token endpoint answered 200 to a refresh on a session
\* that holds an expired token and a handler, and null was returned.
C19_Witness ==
  /\ Refreshing("a")
  /\ Returned("a")
  /\ local["a"].log[1].res = 200
  /\ local["a"].outcome.authToken = None
  /\ _STORAGE.authToken # None
  /\ isAccessTokenExpired(_STORAGE, nowMs)
  /\ _STORAGE.refreshTokenUpdatedHandler # Undefined

\* C20: in a refreshAccessToken whose token request is answered 201, login
\* is called exactly once, with the token of the answer, and the session
\* holds that token; the call ends by returning that same token, or by the
\* handler's rejection, and when it has returned a token of positive
\* expires_in, isAccessTokenExpired() is false.
C20_GrantedRefreshLogsIn ==
  \A t \in Tasks :
    (Refreshing(t) /\ Len(local[t].log) = 1 /\ local[t].log[1].res = 201) =>
      LET l == local[t]
      IN /\ Len(l.loginCalls) = 1
         /\ Some(l.loginCalls[1]) = l.log[1].body
         /\ _STORAGE.authToken = l.log[1].body
         /\ l.pc \in {"handler_wait", "done"}
         /\ Thrown(t) => l.outcome.error = "handler rejected"
         /\ Returned(t) =>
              /\ l.outcome.authToken = l.log[1].body
              /\ l.log[1].body[1].expires_in > 0 =>
                   ~isAccessTokenExpired(_STORAGE, nowMs)

\* C20 witness: a refresh on a session whose token had expired was answered
\* 201 and returned the new token, the handler having been told.
C20_Witness ==
  /\ Refreshing("a")
  /\ Returned("a")
  /\ local["a"].log[1].res = 201
  /\ local["a"].before[1].authToken # None
  /\ isAccessTokenExpired(local["a"].before[1], nowMs)
  /\ local["a"].outcome.authToken # local["a"].before[1].authToken
  /\ Len(local["a"].notified) = 1

SigningOut(t) == local[t].op = "signOut"

\* The refresh token a session knows: the one of the held token if it has
\* one, else the one of the options, else the empty string.
KnownRefreshToken(st) ==
  CASE st.authToken # None /\ st.authToken[1].refresh_token \notin {Undefined, ""}
         -> st.authToken[1].refresh_token
    [] OTHER -> IF st.refreshToken \notin {Undefined, ""}
                  THEN st.refreshToken ELSE ""

\* C21: the cookie header of the token request of refreshAccessToken is the
\* cookie option when one (a non-empty string) is given, and otherwise
\* user_session=<R> with R the refresh token the session knew when the call
\* was made; the cookie header of the request of signOut is user_session=<R>,
\* and it is that request's only header.
C21_RefreshTokenCookie ==
  \A t \in Tasks :
    /\ (Refreshing(t) /\ Len(local[t].log) >= 1) =>
         local[t].log[1].headers["cookie"] =
           IF local[t].cookie \notin {Undefined, ""}
             THEN local[t].cookie
             ELSE "user_session=" \o KnownRefreshToken(local[t].before[1])
    /\ (SigningOut(t) /\ Len(local[t].log) >= 1) =>
         local[t].log[1].headers =
           ("cookie" :>
              "user_session=" \o KnownRefreshToken(local[t].before[1]))

\* C21 witness: a sign-out request in flight on a session whose token has a
\* refresh token and whose options gave another one.
C21_Witness ==
  /\ SigningOut("a")
  /\ local["a"].pc = "signout_wait"
  /\ local["a"].before[1].refreshToken = "RT0"
  /\ local["a"].before[1].authToken # None
  /\ local["a"].before[1].authToken[1].refresh_token = "RT1"
  /\ local["a"].log[1].headers["cookie"] = "user_session=RT1"

LoggingIn(t) ==
  local[t].op = "login" /\ local[t].pc \in {"handler_wait", "done"}

\* The refresh token a session knows, or Undefined when it knows none.
PreviouslyKnown(st) ==
  IF st.authToken # None /\ st.authToken[1].refresh_token \notin {Undefined, ""}
    THEN st.authToken[1].refresh_token
    ELSE st.refreshToken

\* C22 as claimed: login(token) invokes the handler, with (baseUrl,
\* token.refresh_token), exactly when a handler is registered and
\* token.refresh_token differs from the refresh token known before.
C22_NotifiesIffDiffers ==
  \A t \in Tasks :
    LoggingIn(t) =>
      LET st == local[t].before[1]
          tok == local[t].loginCalls[1]
      IN local[t].notified =
           IF /\ st.refreshTokenUpdatedHandler # Undefined
              /\ tok.refresh_token # PreviouslyKnown(st)
             THEN <<(<<st.baseUrl, tok.refresh_token>>)>>
             ELSE <<>>

\* C22 amended: login(token) invokes the handler, once and with (baseUrl,
\* token.refresh_token), exactly when a handler is registered, the token
\* carries a refresh token, and that refresh token differs from the one
\* known before; a token without a refresh token notifies nobody.
C22_NotifiesNewRefreshToken ==
  \A t \in Tasks :
    LoggingIn(t) =>
      LET st == local[t].before[1]
          tok == local[t].loginCalls[1]
      IN local[t].notified =
           IF /\ st.refreshTokenUpdatedHandler # Undefined
              /\ tok.refresh_token # Undefined
              /\ tok.refresh_token # PreviouslyKnown(st)
             THEN <<(<<st.baseUrl, tok.refresh_token>>)>>
             ELSE <<>>

\* C22 witness: with a handler registered, a login whose token carries no
\* refresh token, on a session that knows one, returned without a
\* notification.
C22_Witness ==
  /\ LoggingIn("a")
  /\ Returned("a")
  /\ local["a"].before[1].refreshTokenUpdatedHandler # Undefined
  /\ PreviouslyKnown(local["a"].before[1]) = "RT0"
  /\ local["a"].loginCalls[1].refresh_token = Undefined
  /\ local["a"].notified = <<>>

LoggingOut(t) ==
  local[t].op = "logout" /\ local[t].pc \in {"handler_wait", "done"}

\* C23: a logout() on a client with a handler registered invokes the handler
\* exactly once, with (baseUrl, null), whatever the session held, also when
\* it held nothing; on a client without a handler it invokes nothing.
C23_LogoutNotifies ==
  \A t \in Tasks :
    LoggingOut(t) =>
      /\ local[t].logoutCalls = 1
      /\ local[t].notified =
           IF local[t].before[1].refreshTokenUpdatedHandler # Undefined
             THEN <<(<<local[t].before[1].baseUrl, "null">>)>>
             ELSE <<>>

\* C23 witness: a logout on a session that was already logged out returned,
\* the handler having been told.
C23_Witness ==
  /\ LoggingOut("a")
  /\ Returned("a")
  /\ local["a"].before[1].authToken = None
  /\ local["a"].before[1].refreshToken = Undefined
  /\ local["a"].before[1].baseUrl = "http://baseurl"
  /\ Len(local["a"].notified) = 1

Initiated(t) == local[t].op = "passwordlessLogin" /\ local[t].pc = "done"

\* C24: a passwordlessLogin whose request was answered has returned a result
\* and not thrown, whatever the status and the body: success with verifyUrl
\* and expiresAt (the Date of expires_at) for a 200 whose JSON body has
\* verify_url and expires_at; the failure 'Unexpected API response' for a
\* 200 whose JSON body lacks one of them; the failure with the body's title
\* and detail for a 400 whose JSON body has a title; a failure with a title
\* that tells the parse error for a 200 or 400 whose body is not JSON, and
\* with a title that tells the status code for any other status.  It has
\* thrown only when the request failed in the transport.
C24_InitiateNeverThrows ==
  \A t \in Tasks :
    Initiated(t) =>
      LET l == local[t]
          status == l.log[1].res
      IN IF status = NetworkError
           THEN Thrown(t) /\ l.outcome.error = "transport"
           ELSE
             LET body == l.sent[1]
                 r == l.outcome.result[1]
             IN /\ Returned(t)
                /\ l.outcome.result # None
                /\ (status = 200 /\ body.parses) =>
                     IF /\ body.verify_url \notin {Undefined, ""}
                        /\ body.expires_at \notin {Undefined, ""}
                       THEN /\ r.success
                            /\ r.verifyUrl = body.verify_url
                            /\ r.expiresAt = Some(Date(body.expires_at))
                       ELSE /\ ~r.success
                            /\ r.title = "Unexpected API response"
                /\ (status = 400 /\ body.parses
                      /\ body.title \notin {Undefined, ""}) =>
                     /\ ~r.success
                     /\ r.title = body.title
                     /\ r.detail = body.detail
                /\ (status \in {200, 400} /\ ~body.parses) =>
                     /\ ~r.success
                     /\ includes(r.title, JsonError)
                /\ status \notin {200, 400} =>
                     /\ ~r.success
                     /\ includes(r.title, ToString(status))

\* C24 witness: the login endpoint answered 400 with a body that is not JSON,
\* and a failure was returned.
C24_Witness ==
  /\ Initiated("a")
  /\ Returned("a")
  /\ local["a"].log[1].res = 400
  /\ ~local["a"].sent[1].parses
  /\ ~local["a"].outcome.result[1].success

Confirmed(t) ==
  /\ local[t].op = "confirmPasswordlessLogin"
  /\ local[t].pc = "done"
  /\ local[t].sent # None

\* The code the claim gives a title: by a case-insensitive search, EXPIRED if
\* it contains 'expir', else USED if it contains 'already confirm' or
\* 'used', else (also for a missing title) INVALID.
ClaimedCode(title) ==
  IF title = Undefined THEN "INVALID"
  ELSE IF includes(toLowerCase(title), "expir") THEN "EXPIRED"
  ELSE IF \/ includes(toLowerCase(title), "already confirm")
          \/ includes(toLowerCase(title), "used")
         THEN "USED"
  ELSE "INVALID"

\* C25 as claimed: a confirmPasswordlessLogin whose answer has a body that
\* JSON parses has returned: success exactly when the body's status is
\* 'CONFIRMED', and otherwise the failure with the code ClaimedCode gives
\* the body's title; it has thrown exactly when the body is not JSON.
C25_ConfirmClassifies ==
  \A t \in Tasks :
    Confirmed(t) =>
      LET body == local[t].sent[1]
      IN IF body.json = "text"
           THEN Thrown(t)
           ELSE /\ Returned(t)
                /\ local[t].outcome.result =
                     IF body.json = "object" /\ body.status = "CONFIRMED"
                       THEN Some(SuccessfulConfirm)
                       ELSE Some(UnsuccessfulConfirm(
                                   ClaimedCode(IF body.json = "object"
                                                 THEN body.title
                                                 ELSE Undefined)))

\* A signOut whose request was answered.
SignedOutAnswered(t) ==
  /\ SigningOut(t)
  /\ local[t].pc \in {"handler_wait", "done"}
  /\ local[t].log[Len(local[t].log)].res # NetworkError

\* C26: a signOut hands exactly one request, the DELETE of /auth/signout, to
\* the network.  Answered 204 it has called logout() exactly once and returns
\* null (it rejects only if the handler awaited inside logout rejects);
\* answered 401 or 403 it throws the 'No session found' error; answered any
\* other status outside 200..299 it throws the 'unknown reasons' error.
C26_SignOutClassifies ==
  \A t \in Tasks :
    /\ (SigningOut(t) /\ local[t].pc # "idle") =>
         /\ Len(local[t].log) = 1
         /\ local[t].log[1].kind = "signout"
    /\ SignedOutAnswered(t) =>
         LET l == local[t]
             status == l.log[1].res
         IN /\ status = 204 =>
                 /\ l.logoutCalls = 1
                 /\ Thrown(t) => l.outcome.error = "handler rejected"
                 /\ Returned(t) => l.outcome = [NoOutcome EXCEPT !.kind = "return"]
            /\ status \in {401, 403} =>
                 /\ Thrown(t)
                 /\ l.outcome.error = "No session found, couldn't log out"
            /\ (~ok(status) /\ status \notin {401, 403}) =>
                 /\ Thrown(t)
                 /\ l.outcome.error = "Couldn't log out due to unknown reasons"

\* C26 witness: a signOut on a session holding a token was answered 204 and
\* returned null after one logout.
C26_Witness ==
  /\ SignedOutAnswered("a")
  /\ local["a"].log[1].res = 204
  /\ Returned("a")
  /\ local["a"].logoutCalls = 1
  /\ local["a"].before[1].authToken # None

\* A signOut that failed: it was answered with a status outside 200..299 or
\* its request was rejected by the transport.
SignOutFailed(t) ==
  /\ SigningOut(t)
  /\ local[t].pc = "done"
  /\ ~ok(local[t].log[1].res)

\* C27: a signOut that failed has thrown without calling logout() and without
\* invoking the handler, and the session it found is the session it leaves:
\* authToken, authTokenExpiresAt and refreshToken are what they were when
\* signOut was called.
C27_FailedSignOutKeepsSession ==
  \A t \in Tasks :
    SignOutFailed(t) =>
      /\ Thrown(t)
      /\ local[t].logoutCalls = 0
      /\ local[t].notified = <<>>
      /\ _STORAGE.authToken = local[t].before[1].authToken
      /\ _STORAGE.authTokenExpiresAt = local[t].before[1].authTokenExpiresAt
      /\ _STORAGE.refreshToken = local[t].before[1].refreshToken

\* C27 witness: a signOut on a session holding a token, with a handler
\* registered, was answered 500 and threw.
C27_Witness ==
  /\ SignOutFailed("a")
  /\ local["a"].log[1].res = 500
  /\ local["a"].before[1].authToken # None
  /\ local["a"].before[1].refreshTokenUpdatedHandler # Undefined

Configured(t) == local[t].op = "setOptions" /\ local[t].pc = "done"

\* C28: after a setOptions, each of baseUrl, refreshToken and commonHeaders
\* differs from what was stored before only if the option was given, and is
\* then the option's value; with the option absent it is what it was, so a
\* value that was stored is still stored; authToken and authTokenExpiresAt
\* are what they were.
C28_SetOptionsOverwritesPresent ==
  \A t \in Tasks :
    Configured(t) =>
      LET b == local[t].before[1]
          o == local[t].given[1]
      IN /\ _STORAGE.baseUrl # b.baseUrl =>
              (o.baseUrl # Undefined /\ _STORAGE.baseUrl = o.baseUrl)
         /\ _STORAGE.refreshToken # b.refreshToken =>
              (o.refreshToken # Undefined /\ _STORAGE.refreshToken = o.refreshToken)
         /\ _STORAGE.commonHeaders # b.commonHeaders =>
              (o.commonHeaders # None /\ _STORAGE.commonHeaders = o.commonHeaders)
         /\ o.baseUrl = Undefined => _STORAGE.baseUrl = b.baseUrl
         /\ o.refreshToken = Undefined => _STORAGE.refreshToken = b.refreshToken
         /\ o.commonHeaders = None => _STORAGE.commonHeaders = b.commonHeaders
         /\ b.baseUrl # Undefined => _STORAGE.baseUrl # Undefined
         /\ b.refreshToken # Undefined => _STORAGE.refreshToken # Undefined
         /\ b.commonHeaders # None => _STORAGE.commonHeaders # None
         /\ _STORAGE.authToken = b.authToken
         /\ _STORAGE.authTokenExpiresAt = b.authTokenExpiresAt

\* C28 witness: a setOptions giving neither baseUrl nor refreshToken nor
\* commonHeaders, on a session that stored a refresh token and held an access
\* token, has returned.
C28_Witness ==
  /\ Configured("a")
  /\ local["a"].given[1].baseUrl = Undefined
  /\ local["a"].given[1].refreshToken = Undefined
  /\ local["a"].given[1].commonHeaders = None
  /\ local["a"].before[1].refreshToken = "RT0"
  /\ local["a"].before[1].authToken # None
  /\ _STORAGE.refreshToken = "RT0"

\* The time elapsed since the call began when its last sleep was begun.
ElapsedAtSleep(l) ==
  (l.wakeAt - l.pollingIntervalMilliseconds) - l.startPollingTimeStamp

\* C29 as claimed: a verifyLogin is asleep between polls only if, when the
\* PENDING answer was handled, the elapsed time had not reached the timeout;
\* with the timeout reached it has returned POLLING_TIMEOUT without sleeping.
C29_NoSleepPastDeadline ==
  \A t \in Tasks :
    (Verifying(t) /\ local[t].pc = "sleeping") =>
      ElapsedAtSleep(local[t]) < local[t].timeoutMilliseconds

\* C30 as claimed: a verifyLogin that has returned a status has issued at
\* least one GET of verifyUrl, whatever its pollingTimeoutSeconds.
C30_PollsBeforeReturning ==
  \A t \in Tasks :
    (Verifying(t) /\ Returned(t)) => Requests(local[t], "verify") # {}

\* The cancellation of the verification of task t has been requested.
CancelRequested(l) ==
  l.cancellationToken # None /\ l.cancellationToken[1].isCancellationRequested

\* C31: the flag is looked at only when a poll is answered.  A verifyLogin
\* that is asleep with the flag set stays asleep until its timer is due and
\* then either issues one GET or, the timeout reached, returns
\* POLLING_TIMEOUT: it never returns POLLING_CANCELLED from its sleep.  A
\* verifyLogin with the flag set and a GET in flight issues no further GET
\* and begins no sleep: when that GET is answered the call ends.  So from
\* the setting of the flag at most one GET is issued and at most the rest of
\* one sleep is waited.
C31_CancelSampledAfterPoll ==
  [][\A t \in Tasks :
       (Verifying(t) /\ CancelRequested(local[t])) =>
         /\ local[t].pc = "sleeping" =>
              \/ local'[t] = local[t]
              \/ /\ nowMs >= local[t].wakeAt
                 /\ local'[t].sleeps = local[t].sleeps
                 /\ local'[t].cancellationFinishedCalls = 0
                 /\ \/ /\ local'[t].pc = "verify_wait"
                       /\ Len(local'[t].log) = Len(local[t].log) + 1
                    \/ /\ TimedOut(t)'
                       /\ local'[t].log = local[t].log
         /\ local[t].pc = "verify_wait" =>
              \/ local'[t] = local[t]
              \/ /\ local'[t].pc \in {"handler_wait", "done"}
                 /\ Len(local'[t].log) = Len(local[t].log)
                 /\ local'[t].sleeps = local[t].sleeps]_vars

\* C31 witness: the cancellation was requested while the call slept after
\* its first poll; the timer is due and the flag has not ended the call.
C31_Witness ==
  /\ Verifying("a")
  /\ CancelRequested(local["a"])
  /\ local["a"].pc = "sleeping"
  /\ local["a"].cancelRequestedAfter = 1
  /\ nowMs >= local["a"].wakeAt
  /\ nowMs - local["a"].startPollingTimeStamp < local["a"].timeoutMilliseconds

\* An authenticated fetch that found the session expired when it was called.
FetchedExpired(t) ==
  Fetching(t) /\ local[t].useAuthentication /\ local[t].expiredAtStart

\* The task logs in with a token in this step.
LogsIn(t) == Len(local'[t].loginCalls) = Len(local[t].loginCalls) + 1

\* C32: refreshes are neither coalesced nor locked, and the last writer
\* wins.  An authenticated fetch that found the session expired has issued a
\* token request of its own as its first request, also while the token
\* request of another fetch is in flight.  Each granted refresh writes its
\* token together with that token's expiry over whatever the session held,
\* and a step in which no task logs in or out leaves both as they are; so
\* the session always holds at most one token, with the expiry written with
\* it, and after two overlapping fetches it is the one of the refresh
\* response handled last.
C32_RefreshesNotCoalesced ==
  /\ [](\A t \in Tasks :
          FetchedExpired(t) =>
            /\ Len(local[t].log) >= 1
            /\ local[t].log[1].kind = "token"
            /\ local[t].refreshCalls >= 1)
  /\ [][\A t \in Tasks :
          /\ LogsIn(t) =>
               LET tok == local'[t].loginCalls[Len(local'[t].loginCalls)]
               IN /\ _STORAGE'.authToken = Some(tok)
                  /\ _STORAGE'.authTokenExpiresAt =
                       Some(getCurrentTime(nowMs) + tok.expires_in)
          /\ (\A u \in Tasks :
                 /\ ~(Len(local'[u].loginCalls) > Len(local[u].loginCalls))
                 /\ ~(local'[u].logoutCalls > local[u].logoutCalls)
                 /\ ~(Idle(u) /\ ~Idle(u)'))
               => /\ _STORAGE'.authToken = _STORAGE.authToken
                  /\ _STORAGE'.authTokenExpiresAt = _STORAGE.authTokenExpiresAt]_vars

\* C32 witness: two fetches found the session expired and each had its
\* refresh granted, a's with AT2 and then, while a awaited the handler, b's
\* with AT1; a's primary request carried AT1, both have returned and the
\* session holds AT1.
C32_Witness ==
  /\ FetchedExpired("a") /\ FetchedExpired("b")
  /\ Returned("a") /\ Returned("b")
  /\ local["a"].log[1].res = 201 /\ local["b"].log[1].res = 201
  /\ local["a"].loginCalls[1].access_token = "AT2"
  /\ local["b"].loginCalls[1].access_token = "AT1"
  /\ Len(local["a"].log) = 2 /\ Len(local["b"].log) = 2
  /\ local["a"].log[2].headers["Authorization"] = "Bearer AT1"
  /\ _STORAGE.authToken # None
  /\ _STORAGE.authToken[1].access_token = "AT1"

\* C33: baseUrl is a non-empty string in every state the constructor and
\* setOptions lead to, whatever options they are given (an absent or empty
\* baseUrl option leaves the stored one), so no call has failed with
\* 'Client is not initialized, baseUrl not configured'.
C33_BaseUrlConfigured ==
  /\ Truthy(_STORAGE.baseUrl)
  /\ \A t \in Tasks :
       Thrown(t) =>
         local[t].outcome.error #
           "Client is not initialized, baseUrl not configured"

\* C33 witness: a setOptions with the empty string for baseUrl has returned
\* on a client whose baseUrl had been set, and the stored baseUrl is the one
\* it found.
C33_Witness ==
  /\ Configured("a")
  /\ local["a"].given[1].baseUrl = ""
  /\ local["a"].before[1].baseUrl = "http://baseurl"
  /\ _STORAGE.baseUrl = "http://baseurl"

\* C34: in every state, and so whenever a call is suspended at an await and
\* another task may look at the session, authToken is present exactly when
\* authTokenExpiresAt is.
C34_TokenIffExpiry ==
  (_STORAGE.authToken = None) <=> (_STORAGE.authTokenExpiresAt = None)

\* C34 witness: task a is suspended inside login, awaiting the handler, with
\* the token and its expiry stored, while the token request of a fetch of
\* task b is in flight.
C34_Witness ==
  /\ local["a"].op = "login"
  /\ local["a"].pc = "handler_wait"
  /\ local["b"].pc = "token_wait"
  /\ _STORAGE.authToken # None
  /\ _STORAGE.authTokenExpiresAt # None

\* The cookie of the token request a refreshAccessToken() called on session
\* st issues.
SentCredential(st) ==
  refreshAccessToken(st, Blank, Undefined, "refresh_top").log[1].headers["cookie"]

\* C35 as claimed: the credential a refreshAccessToken() would send is the
\* refresh token given last.  After a setOptions that gives a refresh token
\* it is that token, after a login whose token carries a refresh_token it is
\* that one, and after a setOptions that gives none, or a login whose token
\* carries none, it is what it was before the call.
C35_SendsLatestRefreshToken ==
  \A t \in Tasks :
    /\ Configured(t) =>
         SentCredential(_STORAGE) =
           IF Truthy(local[t].given[1].refreshToken)
             THEN "user_session=" \o local[t].given[1].refreshToken
             ELSE SentCredential(local[t].before[1])
    /\ (local[t].op = "login" /\ local[t].pc \in {"handler_wait", "done"}) =>
         SentCredential(_STORAGE) =
           IF Truthy(local[t].loginCalls[1].refresh_token)
             THEN "user_session=" \o local[t].loginCalls[1].refresh_token
             ELSE SentCredential(local[t].before[1])

\* C36: setOptions stores the handler option as it is given, absent too: a
\* setOptions that passes no refreshTokenUpdatedHandler leaves none
\* registered.  The registered handler changes in no other step, and a login
\* or logout called with none registered invokes nothing.
C36_SetOptionsReplacesHandler ==
  /\ [](\A t \in Tasks :
          /\ Configured(t) =>
               _STORAGE.refreshTokenUpdatedHandler =
                 local[t].given[1].refreshTokenUpdatedHandler
          /\ (/\ local[t].op \in {"login", "logout"}
              /\ local[t].pc \in {"handler_wait", "done"}
              /\ local[t].before[1].refreshTokenUpdatedHandler = Undefined)
               => (local[t].notified = <<>> /\ local[t].pc = "done"))
  /\ [][_STORAGE'.refreshTokenUpdatedHandler # _STORAGE.refreshTokenUpdatedHandler
          => \E t \in Tasks : Idle(t) /\ Configured(t)']_vars

\* C36 witness: a setOptions that passed no handler has returned on a client
\* that had one registered, and none is registered.
C36_Witness ==
  /\ Configured("a")
  /\ local["a"].before[1].refreshTokenUpdatedHandler # Undefined
  /\ local["a"].given[1].refreshTokenUpdatedHandler = Undefined
  /\ _STORAGE.refreshTokenUpdatedHandler = Undefined

\* C37 as claimed: a fetch handed the options object of an earlier fetch that
\* was called with authenticate: false is unauthenticated again: it does not
\* look at the token's expiry, calls no refresh, takes the same headers from
\* the object as the first call did, and its request carries the headers the
\* first call's request carried, with no bearer added.
C37_OptionsReusable ==
  \A t \in Tasks :
    (/\ Fetching(t)
     /\ local[t].reused # None
     /\ ~local[t].reused[1].useAuthentication) =>
      /\ ~local[t].useAuthentication
      /\ local[t].expiryChecks = 0
      /\ local[t].refreshCalls = 0
      /\ local[t].callerHeaders = local[t].reused[1].callerHeaders
      /\ \A i \in 1..Len(local[t].log) :
           local[t].log[i].headers = local[t].reused[1].headers

\* C38 as claimed: a logout() has completed, and every other task either has
\* called nothing since or is still in the call that was suspended when the
\* logout ran (so no operation started after the logout); then the session
\* holds no token and isAccessTokenExpired() is true.
C38_LogoutHolds ==
  \A t \in Tasks :
    (/\ local[t].op = "logout"
     /\ local[t].pc = "done"
     /\ \A u \in Tasks \ {t} : u \in local[t].inflight \/ Idle(u)) =>
      /\ _STORAGE.authToken = None
      /\ isAccessTokenExpired(_STORAGE, nowMs)

\* A verifyLogin whose cancellation was requested and whose next poll has
\* been answered.
AnsweredAfterCancel(t) ==
  /\ Verifying(t)
  /\ local[t].cancelRequestedAfter >= 0
  /\ Len(local[t].polled) = local[t].cancelRequestedAfter + 1

\* C39: the answer of the poll that follows a requested cancellation wins
\* over the cancellation when it is terminal.  Answered 200, the call has
\* logged in with the token (the session holds it) and returns CONFIRMED
\* with it, rejecting only if the handler awaited inside login rejects;
\* answered 400 USED or EXPIRED it returns that status.  In both cases
\* cancellationFinished is not called and the callback not invoked.
C39_TerminalAnswerWins ==
  \A t \in Tasks :
    AnsweredAfterCancel(t) =>
      LET l == local[t]
          n == Len(l.polled)
      IN /\ l.log[n].res = 200 =>
              /\ l.pc \in {"handler_wait", "done"}
              /\ l.loginCalls = <<l.log[n].body[1]>>
              /\ _STORAGE.authToken = l.log[n].body
              /\ Thrown(t) => l.outcome.error = "handler rejected"
              /\ Returned(t) =>
                   /\ l.outcome.verificationStatus = "CONFIRMED"
                   /\ l.outcome.authToken = l.log[n].body
              /\ l.cancellationFinishedCalls = 0
              /\ l.callbackCalls = 0
         /\ (l.log[n].res = 400 /\ l.polled[n] \in {"USED", "EXPIRED"}) =>
              /\ Returned(t)
              /\ l.outcome.verificationStatus = l.polled[n]
              /\ l.outcome.authToken = None
              /\ l.cancellationFinishedCalls = 0
              /\ l.callbackCalls = 0

\* C39 witness: the cancellation, with a callback, was requested after the
\* first poll; the second poll was answered 200 and the call returned
\* CONFIRMED without the callback.
C39_Witness ==
  /\ AnsweredAfterCancel("a")
  /\ local["a"].cancelRequestedAfter = 1
  /\ local["a"].cancellationToken[1].onCancelledCallback
  /\ local["a"].log[2].res = 200
  /\ Returned("a")
  /\ local["a"].outcome.verificationStatus = "CONFIRMED"
  /\ local["a"].callbackCalls = 0

\* A call that logged in and was rejected by the handler login awaited.
ObserverRejected(t) ==
  /\ Thrown(t)
  /\ local[t].outcome.error = "handler rejected"
  /\ local[t].loginCalls # <<>>

\* C40 as claimed: a call rejected by the handler of its login leaves the
\* session holding the new token with isAccessTokenExpired() false, and if
\* the call is a fetch it has issued no primary request.
C40_RejectedAfterCommit ==
  \A t \in Tasks :
    ObserverRejected(t) =>
      /\ _STORAGE.authToken =
           Some(local[t].loginCalls[Len(local[t].loginCalls)])
      /\ ~isAccessTokenExpired(_STORAGE, nowMs)
      /\ Fetching(t) => Requests(local[t], "primary") = {}

\* C40 amended: a login, refreshAccessToken, fetch or verifyLogin rejected by
\* the handler of its login leaves the session holding the new token and the
\* expiry written with it, so that isAccessTokenExpired() is false when the
\* token's expires_in is positive; the call has issued no request after the
\* one whose answer it logged in with: a fetch whose refresh preceded the
\* primary request has issued no primary request, and one whose refresh
\* followed a 401 or 403 has issued no retry.
C40_CommitsBeforeObserver ==
  \A t \in Tasks :
    ObserverRejected(t) =>
      LET l == local[t]
          tok == l.loginCalls[Len(l.loginCalls)]
      IN /\ l.op \in {"login", "refreshAccessToken", "fetch", "verifyLogin"}
         /\ _STORAGE.authToken = Some(tok)
         /\ _STORAGE.authTokenExpiresAt =
              Some(getCurrentTime(nowMs) + tok.expires_in)
         /\ tok.expires_in > 0 => ~isAccessTokenExpired(_STORAGE, nowMs)
         /\ l.op # "login" =>
              /\ l.log[Len(l.log)].body = Some(tok)
              /\ l.log[Len(l.log)].kind \in {"token", "verify"}
         /\ Fetching(t) =>
              /\ Requests(l, "retry") = {}
              /\ l.ret = "fetch_pre" => Requests(l, "primary") = {}
              /\ l.ret = "fetch_post" => Requests(l, "primary") = {1}
                                           \/ Requests(l, "primary") = {2}

\* C40 witness: a fetch whose primary request was answered 401 refreshed, the
\* handler rejected, and the fetch threw with the new token stored and no
\* retry sent.
C40_Witness ==
  /\ ObserverRejected("a")
  /\ Fetching("a")
  /\ local["a"].ret = "fetch_post"
  /\ local["a"].log[1].kind = "primary"
  /\ local["a"].log[1].res = 401
  /\ _STORAGE.authToken = local["a"].log[2].body

====
